---- MODULE Spec2Model ----
(***************************************************************************)
(* Model of the CurvedPianoKeys React component                            *)
(* (src/src/CurvedPianoKeys.tsx): the density tracking, the layout effect  *)
(* that partitions the path and builds the white and black quads, and the  *)
(* viewBox fit.                                                            *)
(*                                                                         *)
(* Numbers.  JavaScript numbers are modelled as exact rationals <<n, d>>   *)
(* with d > 0 and gcd(n, d) = 1, so that 0.001, 0.5, 1e-6, 0.62 and        *)
(* totalLength / whiteCount are the numbers the source writes; rounding of *)
(* IEEE doubles is not modelled.  The host's SVG path (getTotalLength,     *)
(* getPointAtLength) is modelled by polylines lying on one straight line,  *)
(* possibly doubling back on themselves, for which Math.hypot is rational. *)
(***************************************************************************)
EXTENDS Integers, Sequences, FiniteSets, TLC

\* --------------------------------------------------------------------------
\* Exact rational arithmetic (the JavaScript number operators)
\* --------------------------------------------------------------------------

Abs(n) == IF n < 0 THEN -n ELSE n

RECURSIVE GCD(_, _)
GCD(a, b) == IF b = 0 THEN a ELSE GCD(b, a % b)

\* the rational n / d in lowest terms with a positive denominator (d # 0)
Q(n, d) ==
    LET g == GCD(Abs(n), Abs(d))
        s == IF d < 0 THEN -1 ELSE 1
    IN  << (s * n) \div g, (s * d) \div g >>

I(n) == << n, 1 >>

\* the operators below take and return rationals in lowest terms; the first
\* branches are shortcuts for integers and zero
RAdd(a, b) ==
    IF a[2] = 1 /\ b[2] = 1 THEN << a[1] + b[1], 1 >>
    ELSE IF a[1] = 0 THEN b
    ELSE IF b[1] = 0 THEN a
    ELSE LET g == GCD(a[2], b[2])
         IN  Q(a[1] * (b[2] \div g) + b[1] * (a[2] \div g), (a[2] \div g) * b[2])
RNeg(a) == << -a[1], a[2] >>
RSub(a, b) == RAdd(a, RNeg(b))
RMul(a, b) ==
    IF a[1] = 0 \/ b[1] = 0 THEN << 0, 1 >>
    ELSE IF a[2] = 1 /\ b[2] = 1 THEN << a[1] * b[1], 1 >>
    ELSE LET g1 == GCD(Abs(a[1]), b[2])
             g2 == GCD(Abs(b[1]), a[2])
         IN  << (a[1] \div g1) * (b[1] \div g2), (a[2] \div g2) * (b[2] \div g1) >>
\* a / b for b # 0
RDiv(a, b) == RMul(a, IF b[1] < 0 THEN << -b[2], -b[1] >> ELSE << b[2], b[1] >>)
\* comparisons cross-multiply by the denominators over their gcd; a zero
\* denominator (an infinity, see below) is multiplied as it is
RLt(a, b) ==
    IF a[2] = b[2] THEN a[1] < b[1]
    ELSE LET g == IF a[2] = 0 \/ b[2] = 0 THEN 1 ELSE GCD(a[2], b[2])
         IN  a[1] * (b[2] \div g) < b[1] * (a[2] \div g)
RLe(a, b) == ~RLt(b, a)
RGt(a, b) == RLt(b, a)
RMin(a, b) == IF RLt(b, a) THEN b ELSE a
RMax(a, b) == IF RLt(a, b) THEN b ELSE a
RAbs(a) == << Abs(a[1]), a[2] >>
\* Math.floor: \div rounds towards minus infinity for a positive divisor
RFloor(a) == a[1] \div a[2]

ISqrt(k) == CHOOSE r \in 0..k : r * r = k
\* square root of a rational that is a perfect square
RSqrt(a) == << ISqrt(a[1]), ISqrt(a[2]) >>

\* Math.hypot(x, y), computed as |x| * sqrt(1 + (y/x)^2) to keep the
\* intermediate integers small; exact for the curves of this model
HypotOf(x, q) == RMul(RAbs(x), RSqrt(RAdd(I(1), RMul(q, q))))
Hypot(x, y) ==
    IF x[1] = 0 THEN RAbs(y)
    ELSE IF y[1] = 0 THEN RAbs(x)
    ELSE HypotOf(x, RDiv(y, x))

\* --------------------------------------------------------------------------
\* The host's path element: <path d=...> with getTotalLength and
\* getPointAtLength.  A path is a polyline on the line through (ox, oy) with
\* unit direction (ux, uy): it runs forward for `fold` units of arc length
\* and, when fold < len, doubles back for the rest (a cusp at s = fold).
\* --------------------------------------------------------------------------

\* "M 20 120": a single point, total length 0
PathPoint ==
    [ox |-> I(20), oy |-> I(120), ux |-> I(1), uy |-> I(0), len |-> I(0), fold |-> I(0)]
\* "M 0 0 L 1200 0": the straight horizontal line of length 1200
PathStraight ==
    [ox |-> I(0), oy |-> I(0), ux |-> I(1), uy |-> I(0), len |-> I(1200), fold |-> I(1200)]
\* "M 0 0 L 3 4": a slanted segment of length 5
PathSlant ==
    [ox |-> I(0), oy |-> I(0), ux |-> Q(3, 5), uy |-> Q(4, 5), len |-> I(5), fold |-> I(5)]
\* "M 0 0 L 3 0 L 0 0": out and back, length 6, cusp at s = 3
PathFold ==
    [ox |-> I(0), oy |-> I(0), ux |-> I(1), uy |-> I(0), len |-> I(6), fold |-> I(3)]
\* "M 0 0 L 0 0.0025": a vertical segment shorter than the 0.5 sampling step
PathShort ==
    [ox |-> I(0), oy |-> I(0), ux |-> I(0), uy |-> I(1), len |-> Q(1, 400), fold |-> Q(1, 400)]
\* "M 0 0 L 0.00225 0 L 0 0": a closed curve of length 0.0045, out and back
PathLoop ==
    [ox |-> I(0), oy |-> I(0), ux |-> I(1), uy |-> I(0), len |-> Q(9, 2000),
     fold |-> Q(9, 4000)]

Paths == {PathPoint, PathStraight, PathSlant, PathFold, PathShort}

getTotalLength(path) == path.len

\* the point at the signed distance g from the origin along the line
PointAlong(path, g) ==
    [x |-> RAdd(path.ox, RMul(path.ux, g)), y |-> RAdd(path.oy, RMul(path.uy, g))]

getPointAtLength(path, s) ==
    PointAlong(path, IF RLe(s, path.fold) THEN s ELSE RSub(RMul(I(2), path.fold), s))

\* --------------------------------------------------------------------------
\* Module constants of CurvedPianoKeys.tsx
\* --------------------------------------------------------------------------

\* undefined / null: the empty tuple, which no number equals
None == << >>

NOTE_ORDER_A == << "A", "B", "C", "D", "E", "F", "G" >>
NOTE_ORDER_C == << "C", "D", "E", "F", "G", "A", "B" >>

\* fractional offsets for the black key following each white key; null for
\* the notes that have none
BLACK_FRACTIONS ==
    [A |-> Q(6, 10), B |-> None, C |-> Q(6, 10), D |-> Q(4, 10), E |-> None,
     F |-> Q(6, 10), G |-> Q(5, 10)]

\* --------------------------------------------------------------------------
\* geoAt, makeQuadCentered, makeQuadFromEdge
\* --------------------------------------------------------------------------

\* Each local of the source that is read more than once is the parameter of
\* the definition that continues the computation, so that it is written and
\* evaluated once.

\* a variant that clamps at 0 only
clampAtZero(total, value) == RMax(I(0), value)

\* const clamp = (value) => Math.max(0, Math.min(total, value))
clamp(total, value) == RMax(I(0), RMin(total, value))

\* a variant without the guard
TangentLengthUnguarded(hyp) == hyp

\* Math.hypot(tangentX, tangentY) || 1e-6
TangentLength(hyp) == IF hyp = I(0) THEN Q(1, 1000000) ELSE hyp

\* a variant whose normal is the tangent turned the other way
geoAtResultClockwise(position, unitX, unitY) ==
    [p |-> position,
     t |-> [x |-> unitX, y |-> unitY],
     n |-> [x |-> unitY, y |-> RNeg(unitX)]]

\* the value returned, from position and the unit tangent
geoAtResult(position, unitX, unitY) ==
    [p |-> position,
     t |-> [x |-> unitX, y |-> unitY],
     n |-> [x |-> RNeg(unitY), y |-> unitX]]

\* a variant that returns the chord as it is, without the division
geoAtUnscaled(position, tangentX, tangentY, tangentLength) ==
    geoAtResult(position, tangentX, tangentY)

geoAtUnit(position, tangentX, tangentY, tangentLength) ==
    geoAtResult(position, RDiv(tangentX, tangentLength), RDiv(tangentY, tangentLength))

geoAtTangent(position, tangentX, tangentY) ==
    geoAtUnit(position, tangentX, tangentY, TangentLength(Hypot(tangentX, tangentY)))

geoAtSamples(position, next, previous) ==
    geoAtTangent(position, RSub(next.x, previous.x), RSub(next.y, previous.y))

\* the arguments of the three calls of path.getPointAtLength, lines 166-168:
\* clamp(s), clamp(s + delta), clamp(s - delta) with delta = 0.5
Queries(total, s) ==
    << clamp(total, s), clamp(total, RAdd(s, Q(1, 2))), clamp(total, RSub(s, Q(1, 2))) >>

geoAtQueried(path, queries) ==
    geoAtSamples(getPointAtLength(path, queries[1]),
                 getPointAtLength(path, queries[2]),
                 getPointAtLength(path, queries[3]))

geoAt(path, s) == geoAtQueried(path, Queries(getTotalLength(path), s))

\* a variant with the two end corners in the other order (a bow-tie)
QuadCenteredCrossed(start, end, halfDepth) ==
    << RAdd(start.p.x, RMul(start.n.x, halfDepth)),
       RAdd(start.p.y, RMul(start.n.y, halfDepth)),
       RSub(end.p.x, RMul(end.n.x, halfDepth)),
       RSub(end.p.y, RMul(end.n.y, halfDepth)),
       RAdd(end.p.x, RMul(end.n.x, halfDepth)),
       RAdd(end.p.y, RMul(end.n.y, halfDepth)),
       RSub(start.p.x, RMul(start.n.x, halfDepth)),
       RSub(start.p.y, RMul(start.n.y, halfDepth)) >>

\* [a1x, a1y, b1x, b1y, b2x, b2y, a2x, a2y] from the frames at s0 and s1
QuadCentered(start, end, halfDepth) ==
    << RAdd(start.p.x, RMul(start.n.x, halfDepth)),
       RAdd(start.p.y, RMul(start.n.y, halfDepth)),
       RAdd(end.p.x, RMul(end.n.x, halfDepth)),
       RAdd(end.p.y, RMul(end.n.y, halfDepth)),
       RSub(end.p.x, RMul(end.n.x, halfDepth)),
       RSub(end.p.y, RMul(end.n.y, halfDepth)),
       RSub(start.p.x, RMul(start.n.x, halfDepth)),
       RSub(start.p.y, RMul(start.n.y, halfDepth)) >>

makeQuadCentered(path, s0, s1, halfDepth) ==
    QuadCentered(geoAt(path, s0), geoAt(path, s1), halfDepth)

\* a point of the anchored edge, and the point `depth` further along the
\* normal on the side `orientation`
Anchor(g, anchorOffset) ==
    [x |-> RAdd(g.p.x, RMul(g.n.x, anchorOffset)),
     y |-> RAdd(g.p.y, RMul(g.n.y, anchorOffset))]
Inner(g, anchor, depth, orientation) ==
    [x |-> RAdd(anchor.x, RMul(RMul(g.n.x, depth), I(orientation))),
     y |-> RAdd(anchor.y, RMul(RMul(g.n.y, depth), I(orientation)))]

\* a variant with the two inner corners in the other order
QuadOfCrossed(startAnchor, endAnchor, endInner, startInner) ==
    << startAnchor.x, startAnchor.y, endAnchor.x, endAnchor.y,
       startInner.x, startInner.y, endInner.x, endInner.y >>

\* [startAnchor, endAnchor, endInner, startInner]
QuadOf(startAnchor, endAnchor, endInner, startInner) ==
    << startAnchor.x, startAnchor.y, endAnchor.x, endAnchor.y,
       endInner.x, endInner.y, startInner.x, startInner.y >>

QuadFromEdge(start, end, startAnchor, endAnchor, depth, orientation) ==
    QuadOf(startAnchor, endAnchor,
           Inner(end, endAnchor, depth, orientation),
           Inner(start, startAnchor, depth, orientation))

QuadFromFrames(start, end, anchorOffset, depth, orientation) ==
    QuadFromEdge(start, end, Anchor(start, anchorOffset), Anchor(end, anchorOffset),
                 depth, orientation)

makeQuadFromEdge(path, s0, s1, anchorOffset, depth, orientation) ==
    QuadFromFrames(geoAt(path, s0), geoAt(path, s1), anchorOffset, depth, orientation)

\* --------------------------------------------------------------------------
\* The layout effect, lines 314-417: partition, white quads, black quads,
\* viewBox fit
\* --------------------------------------------------------------------------

\* a variant that rounds to the nearest count instead of flooring
WhiteCountRounded(effectiveWhiteKeys) ==
    IF RFloor(RAdd(effectiveWhiteKeys, Q(1, 2))) > 1
    THEN RFloor(RAdd(effectiveWhiteKeys, Q(1, 2))) ELSE 1

\* Math.max(1, Math.floor(effectiveWhiteKeys))
WhiteCount(effectiveWhiteKeys) ==
    IF RFloor(effectiveWhiteKeys) > 1 THEN RFloor(effectiveWhiteKeys) ELSE 1

\* a variant that takes any span given, without the test whiteKeySpan > 0
SpanOfAnyGiven(whiteKeySpan, totalLength, whiteCount) ==
    IF whiteKeySpan # None THEN whiteKeySpan ELSE RDiv(totalLength, I(whiteCount))

\* whiteKeySpan && whiteKeySpan > 0 ? whiteKeySpan : totalLength / whiteCount
SpanOf(whiteKeySpan, totalLength, whiteCount) ==
    IF whiteKeySpan # None /\ whiteKeySpan # I(0) /\ RGt(whiteKeySpan, I(0))
    THEN whiteKeySpan
    ELSE RDiv(totalLength, I(whiteCount))

\* a variant without the clamp to totalLength
BoundariesUnclamped(whiteCount, span, totalLength) ==
    [index \in 0..whiteCount |-> RMul(I(index), span)]

\* a variant with Math.max in the place of Math.min
BoundariesAtLeast(whiteCount, span, totalLength) ==
    [index \in 0..whiteCount |-> RMax(RMul(I(index), span), totalLength)]

\* boundaries.push(Math.min(index * span, totalLength)) for index = 0..whiteCount
Boundaries(whiteCount, span, totalLength) ==
    [index \in 0..whiteCount |-> RMin(RMul(I(index), span), totalLength)]

\* a variant whose keys start 0.001 after their first boundary
WhitesApart(path, boundaries, whiteCount, halfWhite) ==
    [k \in 1..whiteCount |->
        makeQuadCentered(path, RAdd(boundaries[k - 1], Q(1, 1000)), boundaries[k],
                         halfWhite)]

\* whites.push(makeQuadCentered(...)) for index = 0..whiteCount-1: the k-th
\* element of the sequence is the key of index k - 1
Whites(path, boundaries, whiteCount, halfWhite) ==
    [k \in 1..whiteCount |->
        makeQuadCentered(path, boundaries[k - 1], boundaries[k], halfWhite)]

\* a variant that reads NOTE_ORDER_C whatever startOn is
NoteOrderOfC(startOn) == NOTE_ORDER_C

\* startOn === 'A' ? NOTE_ORDER_A : NOTE_ORDER_C
NoteOrder(startOn) == IF startOn = "A" THEN NOTE_ORDER_A ELSE NOTE_ORDER_C

\* a variant that reads NOTE_ORDER_A whatever startOn is
FractionFromA(startOn, index) == BLACK_FRACTIONS[NOTE_ORDER_A[(index % 7) + 1]]

\* order[index % 7]; BLACK_FRACTIONS[note]
Fraction(startOn, index) == BLACK_FRACTIONS[NoteOrder(startOn)[(index % 7) + 1]]

MinInt(a, b) == IF a < b THEN a ELSE b

\* a variant that keeps the shifted offsets as they are
Unclamped(index, minBoundary, maxBoundary, startOffset, endOffset) ==
    [index |-> index, s0 |-> startOffset, s1 |-> endOffset]

\* lines 367-368: s0 and s1 from the shifted offsets
Clamped(index, minBoundary, maxBoundary, startOffset, endOffset) ==
    [index |-> index,
     s0 |-> RMax(minBoundary, startOffset),
     s1 |-> RMin(maxBoundary, endOffset)]

\* a variant that truncates: endOffset is cut back and startOffset stays
CutDownBy(index, minBoundary, maxBoundary, startOffset, endOffset, shift) ==
    Clamped(index, minBoundary, maxBoundary, startOffset, RSub(endOffset, shift))

\* lines 361-365: shift down by what endOffset exceeds maxBoundary
ShiftDownBy(index, minBoundary, maxBoundary, startOffset, endOffset, shift) ==
    Clamped(index, minBoundary, maxBoundary, RSub(startOffset, shift), RSub(endOffset, shift))

ShiftDown(index, minBoundary, maxBoundary, startOffset, endOffset) ==
    ShiftDownBy(index, minBoundary, maxBoundary, startOffset, endOffset,
                IF RGt(endOffset, maxBoundary) THEN RSub(endOffset, maxBoundary) ELSE I(0))

\* lines 355-359: shift up by what startOffset is short of minBoundary
ShiftUpBy(index, minBoundary, maxBoundary, startOffset, endOffset, shift) ==
    ShiftDown(index, minBoundary, maxBoundary, RAdd(startOffset, shift), RAdd(endOffset, shift))

ShiftUp(index, minBoundary, maxBoundary, startOffset, endOffset) ==
    ShiftUpBy(index, minBoundary, maxBoundary, startOffset, endOffset,
              IF RLt(startOffset, minBoundary) THEN RSub(minBoundary, startOffset) ELSE I(0))

\* a variant that takes the whole blackWidth to either side of the seam
CentredTwiceAsWide(index, minBoundary, maxBoundary, seam, halfWidth) ==
    ShiftUp(index, minBoundary, maxBoundary, RSub(seam, RMul(I(2), halfWidth)),
            RAdd(seam, RMul(I(2), halfWidth)))

\* lines 352-353: the key centred on the seam
Centred(index, minBoundary, maxBoundary, seam, halfWidth) ==
    ShiftUp(index, minBoundary, maxBoundary, RSub(seam, halfWidth), RAdd(seam, halfWidth))

\* lines 348-368: the extent [s0, s1] of the black key at boundary `index`
BlackExtent(boundaries, whiteCount, index, blackWidth) ==
    Centred(index,
            RAdd(boundaries[index], Q(1, 1000)),
            RSub(boundaries[MinInt(index + 2, whiteCount)], Q(1, 1000)),
            boundaries[index + 1],
            RDiv(blackWidth, I(2)))

\* a variant that asks for more than 0.001 of room
EmittedWithRoom(startOn, extent) ==
    Fraction(startOn, extent.index) # None
        /\ RGt(extent.s1, RAdd(extent.s0, Q(1, 1000)))

\* a variant that pushes a key of no length too: s1 >= s0
EmittedUnlessInverted(startOn, extent) ==
    Fraction(startOn, extent.index) # None /\ RLe(extent.s0, extent.s1)

\* lines 342-346 and 370: the note at index has a black key and s1 > s0
Emitted(startOn, extent) ==
    Fraction(startOn, extent.index) # None /\ RGt(extent.s1, extent.s0)

\* the extents, in order, of the indices whose key is pushed
Kept(startOn, candidates) ==
    SelectSeq(candidates, LAMBDA extent : Emitted(startOn, extent))

\* the loop of lines 341-373: the extents of the black keys pushed, in order
BlackExtents(boundaries, whiteCount, startOn, blackWidth) ==
    Kept(startOn, [k \in 1..(whiteCount - 1) |->
                      BlackExtent(boundaries, whiteCount, k - 1, blackWidth)])

\* a variant that anchors on the same edge for both orientations
AnchorOffsetFixed(orientation, halfWhite) == RNeg(halfWhite)

\* orientation === 1 ? -halfWhite : halfWhite
AnchorOffset(orientation, halfWhite) ==
    IF orientation = 1 THEN RNeg(halfWhite) ELSE halfWhite

\* blacks.push(makeQuadFromEdge(path, s0, s1, anchorOffset, blackDepthPx, orientation))
Blacks(path, extents, anchorOffset, blackDepthPx, orientation) ==
    [k \in 1..Len(extents) |->
        makeQuadFromEdge(path, extents[k].s0, extents[k].s1, anchorOffset,
                         blackDepthPx, orientation)]

\* --------------------------------------------------------------------------
\* viewBox fit, lines 375-401.  Infinity is <<1, 0>> and -Infinity <<-1, 0>>:
\* RLt compares them correctly with every finite number.
\* --------------------------------------------------------------------------

Infinity == << 1, 0 >>
NegInfinity == << -1, 0 >>
NaN == << 0, 0 >>
IsFinite(a) == a[2] # 0

\* the quads of [...whites, ...blacks], in order
Polygons(whites, blacks) == whites \o blacks

\* Math.min / Math.max on numbers that may be infinite
NMin(a, b) == IF RLt(b, a) THEN b ELSE a
NMax(a, b) == IF RLt(a, b) THEN b ELSE a

\* lines 384-391 for one quad, from the running bounds acc
QuadBounds(quad, acc) ==
    [minX |-> NMin(NMin(NMin(NMin(acc.minX, quad[1]), quad[3]), quad[5]), quad[7]),
     minY |-> NMin(NMin(NMin(NMin(acc.minY, quad[2]), quad[4]), quad[6]), quad[8]),
     maxX |-> NMax(NMax(NMax(NMax(acc.maxX, quad[1]), quad[3]), quad[5]), quad[7]),
     maxY |-> NMax(NMax(NMax(NMax(acc.maxY, quad[2]), quad[4]), quad[6]), quad[8])]

\* the loop of lines 378-392 over polygons[from..to], started from
\* Infinity / -Infinity.  min and max are associative, so the range is
\* halved instead of walked quad by quad, which keeps the recursion shallow.
Union(l, r) ==
    [minX |-> NMin(l.minX, r.minX), minY |-> NMin(l.minY, r.minY),
     maxX |-> NMax(l.maxX, r.maxX), maxY |-> NMax(l.maxY, r.maxY)]

RECURSIVE FitBounds(_, _, _)
FitBounds(polygons, from, to) ==
    IF from >= to
    THEN QuadBounds(polygons[from], [minX |-> Infinity, minY |-> Infinity,
                                     maxX |-> NegInfinity, maxY |-> NegInfinity])
    ELSE Union(FitBounds(polygons, from, (from + to) \div 2),
               FitBounds(polygons, ((from + to) \div 2) + 1, to))

\* a variant with || in the place of ??: a padding of 0 counts as not given
PadUnlessZero(viewBoxPadding, strokeWidth) ==
    IF viewBoxPadding # None /\ viewBoxPadding # I(0) THEN viewBoxPadding
    ELSE RMax(I(8), RMul(strokeWidth, I(4)))

\* viewBoxPadding ?? Math.max(8, strokeWidth * 4)
Pad(viewBoxPadding, strokeWidth) ==
    IF viewBoxPadding # None THEN viewBoxPadding
    ELSE RMax(I(8), RMul(strokeWidth, I(4)))

\* lines 394-399: the fitted viewBox from the bounds b, or prev
Fitted(b, pad, prev) ==
    IF IsFinite(b.minX) /\ IsFinite(b.minY) /\ IsFinite(b.maxX) /\ IsFinite(b.maxY)
    THEN << RSub(b.minX, pad), RSub(b.minY, pad),
            RAdd(RSub(b.maxX, b.minX), RMul(pad, I(2))),
            RAdd(RSub(b.maxY, b.minY), RMul(pad, I(2))) >>
    ELSE prev

FitPolygons(polygons, pad, prev) ==
    IF Len(polygons) > 0 THEN Fitted(FitBounds(polygons, 1, Len(polygons)), pad, prev)
    ELSE prev

\* a variant that fits whatever fitViewBox says
FitViewBoxAlways(fitViewBox, viewBoxPadding, strokeWidth, whites, blacks, prev) ==
    FitPolygons(Polygons(whites, blacks), Pad(viewBoxPadding, strokeWidth), prev)

\* the viewBox state after lines 375-401; prev is its value before
FitViewBox(fitViewBox, viewBoxPadding, strokeWidth, whites, blacks, prev) ==
    IF fitViewBox
    THEN FitPolygons(Polygons(whites, blacks), Pad(viewBoxPadding, strokeWidth), prev)
    ELSE prev

\* lines 375-404: what the effect sets (whites, blacks, viewBox), with its
\* locals whiteCount, span, boundaries and the extents of the black keys
LayoutResult(p, prevViewBox, whiteCount, span, boundaries, whites, extents, blacks) ==
    [whites |-> whites, blacks |-> blacks,
     viewBox |-> FitViewBox(p.fitViewBox, p.viewBoxPadding, p.strokeWidth,
                            whites, blacks, prevViewBox),
     whiteCount |-> whiteCount, span |-> span,
     boundaries |-> boundaries, extents |-> extents]

\* line 371: the black quads of the extents
LayoutBlacks(p, prevViewBox, whiteCount, span, boundaries, halfWhite, whites, extents) ==
    LayoutResult(p, prevViewBox, whiteCount, span, boundaries, whites, extents,
                 Blacks(p.d, extents, AnchorOffset(p.orientation, halfWhite),
                        RMul(p.thickness, p.blackDepth), p.orientation))

\* lines 329-373: the white quads and the extents of the black keys
LayoutKeys(p, prevViewBox, whiteCount, span, boundaries, halfWhite) ==
    LayoutBlacks(p, prevViewBox, whiteCount, span, boundaries, halfWhite,
                 Whites(p.d, boundaries, whiteCount, halfWhite),
                 BlackExtents(boundaries, whiteCount, p.startOn,
                              RMul(span, p.blackWidthRatio)))

\* lines 324-327
LayoutSpan(p, prevViewBox, whiteCount, totalLength, span) ==
    LayoutKeys(p, prevViewBox, whiteCount, span,
               Boundaries(whiteCount, span, totalLength), RDiv(p.thickness, I(2)))

\* lines 321-322
LayoutCount(p, prevViewBox, whiteCount, totalLength) ==
    LayoutSpan(p, prevViewBox, whiteCount, totalLength,
               SpanOf(p.whiteKeySpan, totalLength, whiteCount))

\* One run of the layout effect with the props p, the effective key count
\* and the viewBox state before it
LayoutEffect(p, effectiveWhiteKeys, prevViewBox) ==
    LayoutCount(p, prevViewBox, WhiteCount(effectiveWhiteKeys), getTotalLength(p.d))

\* --------------------------------------------------------------------------
\* Density presets, lines 132-160
\* --------------------------------------------------------------------------

WHITE_KEY_DENSITY_VALUES == [xs |-> 28, sm |-> 36, md |-> 44, lg |-> 52, xl |-> 60]

DENSITY_BREAKPOINTS ==
    << [maxWidth |-> I(520), density |-> "xs"],
       [maxWidth |-> I(768), density |-> "sm"],
       [maxWidth |-> I(1024), density |-> "md"],
       [maxWidth |-> I(1366), density |-> "lg"],
       [maxWidth |-> Infinity, density |-> "xl"] >>

DEFAULT_VIEWPORT_WIDTH == 1024

\* a variant whose breakpoints are exclusive: resolvedWidth < entry.maxWidth
chooseDensityBelow(width, setting) ==
    IF setting # "auto" THEN setting
    ELSE LET resolvedWidth ==
                 IF IsFinite(width) /\ RGt(width, I(0)) THEN width
                 ELSE I(DEFAULT_VIEWPORT_WIDTH)
             hits == {k \in 1..Len(DENSITY_BREAKPOINTS) :
                         RLt(resolvedWidth, DENSITY_BREAKPOINTS[k].maxWidth)}
         IN  IF hits = {} THEN "xl"
             ELSE DENSITY_BREAKPOINTS[CHOOSE k \in hits : \A j \in hits : k <= j].density

\* a variant that looks the width up as it is
chooseDensityUnresolved(width, setting) ==
    IF setting # "auto" THEN setting
    ELSE LET hits == {k \in 1..Len(DENSITY_BREAKPOINTS) :
                         RLe(width, DENSITY_BREAKPOINTS[k].maxWidth)}
         IN  IF hits = {} THEN "xl"
             ELSE DENSITY_BREAKPOINTS[CHOOSE k \in hits : \A j \in hits : k <= j].density

\* lines 153-160
chooseDensity(width, setting) ==
    IF setting # "auto" THEN setting
    ELSE LET resolvedWidth ==
                 IF IsFinite(width) /\ RGt(width, I(0)) THEN width
                 ELSE I(DEFAULT_VIEWPORT_WIDTH)
             hits == {k \in 1..Len(DENSITY_BREAKPOINTS) :
                         RLe(resolvedWidth, DENSITY_BREAKPOINTS[k].maxWidth)}
         IN  IF hits = {} THEN "xl"
             ELSE DENSITY_BREAKPOINTS[CHOOSE k \in hits : \A j \in hits : k <= j].density

\* --------------------------------------------------------------------------
\* Props and their defaults, lines 84-116 and 217-238
\* --------------------------------------------------------------------------

DEFAULTS ==
    [numWhiteKeys |-> I(52), whiteKeyDensity |-> "auto", startOn |-> "A",
     thickness |-> I(80), blackWidthRatio |-> Q(62, 100), blackDepth |-> Q(64, 100),
     strokeWidth |-> I(1), orientation |-> 1, fitViewBox |-> TRUE,
     initialViewBox |-> << I(0), I(0), I(1200), I(400) >>]

\* the destructured props of a render that passes only d
DefaultProps(d) ==
    [d |-> d, numWhiteKeys |-> None, whiteKeyDensity |-> DEFAULTS.whiteKeyDensity,
     startOn |-> DEFAULTS.startOn, thickness |-> DEFAULTS.thickness,
     whiteKeySpan |-> None, blackWidthRatio |-> DEFAULTS.blackWidthRatio,
     blackDepth |-> DEFAULTS.blackDepth, strokeWidth |-> DEFAULTS.strokeWidth,
     orientation |-> DEFAULTS.orientation, fitViewBox |-> DEFAULTS.fitViewBox,
     viewBoxPadding |-> None, svgViewBox |-> None]

\* --------------------------------------------------------------------------
\* Component state and effects, lines 240-417
\* --------------------------------------------------------------------------

VARIABLES
    props,          \* the props of the last render
    densityRef,     \* densityRef.current
    autoWhiteKeys,  \* useState autoWhiteKeys
    whiteQuads,     \* useState whiteQuads
    blackQuads,     \* useState blackQuads
    viewBox,        \* useState viewBox: << minX, minY, width, height >>
    listening,      \* the density effect's ResizeObserver and resize listener are installed
    mounted,        \* the effects of the first commit have run
    layout,         \* locals of the last run of the layout effect, and the viewBox
                    \* state as that run left it
    measured        \* the width last handed to chooseDensity

vars ==
    << props, densityRef, autoWhiteKeys, whiteQuads, blackQuads, viewBox, listening,
       mounted, layout, measured >>

\* a variant that takes the density's count whatever numWhiteKeys is
EffectiveWhiteKeysOfDensity(numWhiteKeys, auto) == I(auto)

\* numWhiteKeys ?? autoWhiteKeys
EffectiveWhiteKeys(numWhiteKeys, auto) ==
    IF numWhiteKeys # None THEN numWhiteKeys ELSE I(auto)

\* the component state as one record
State ==
    [densityRef |-> densityRef, autoWhiteKeys |-> autoWhiteKeys,
     whiteQuads |-> whiteQuads, blackQuads |-> blackQuads, viewBox |-> viewBox,
     listening |-> listening, layout |-> layout]

\* useRef / useState initial values of the first render, lines 243-247
InitialState(p) ==
    LET density == chooseDensity(I(DEFAULT_VIEWPORT_WIDTH), p.whiteKeyDensity)
    IN  [densityRef |-> density, autoWhiteKeys |-> WHITE_KEY_DENSITY_VALUES[density],
         whiteQuads |-> << >>, blackQuads |-> << >>, viewBox |-> DEFAULTS.initialViewBox,
         listening |-> FALSE, layout |-> None]

\* a variant that moves the reference and leaves the key count
updateFromWidthRefOnly(st, width) ==
    [st EXCEPT !.densityRef = chooseDensity(width, "auto")]

\* updateFromWidth, lines 276-284
updateFromWidth(st, width) ==
    LET nextDensity == chooseDensity(width, "auto")
    IN  IF st.densityRef = nextDensity THEN st
        ELSE [st EXCEPT !.densityRef = nextDensity,
                        !.autoWhiteKeys = WHITE_KEY_DENSITY_VALUES[nextDensity]]

\* a variant whose explicit-tier branch leaves the listeners of an earlier
\* run in place
DensityEffectStillListening(st, p, width) ==
    IF p.numWhiteKeys # None THEN [st EXCEPT !.listening = FALSE]
    ELSE IF p.whiteKeyDensity # "auto"
    THEN [st EXCEPT !.densityRef = p.whiteKeyDensity,
                    !.autoWhiteKeys = WHITE_KEY_DENSITY_VALUES[p.whiteKeyDensity]]
    ELSE [updateFromWidth(st, width) EXCEPT !.listening = TRUE]

\* the density effect, lines 258-312, after the cleanup of its previous run;
\* width is what measure() reads from the svg element
DensityEffect(st, p, width) ==
    IF p.numWhiteKeys # None THEN [st EXCEPT !.listening = FALSE]
    ELSE IF p.whiteKeyDensity # "auto"
    THEN [st EXCEPT !.densityRef = p.whiteKeyDensity,
                    !.autoWhiteKeys = WHITE_KEY_DENSITY_VALUES[p.whiteKeyDensity],
                    !.listening = FALSE]
    ELSE [updateFromWidth(st, width) EXCEPT !.listening = TRUE]

\* the svgViewBox effect, lines 252-256
SvgViewBoxEffect(st, p) ==
    IF p.svgViewBox # None THEN [st EXCEPT !.viewBox = p.svgViewBox] ELSE st

\* the layout effect run on the state st: setViewBox, setWhiteQuads, setBlackQuads
\* a variant that pushes onto the quads of the previous run
SetLayoutAppending(st, r) ==
    [st EXCEPT !.whiteQuads = st.whiteQuads \o r.whites,
               !.blackQuads = st.blackQuads \o r.blacks, !.viewBox = r.viewBox,
               !.layout = [whiteCount |-> r.whiteCount, span |-> r.span,
                           boundaries |-> r.boundaries, extents |-> r.extents,
                           viewBox |-> r.viewBox]]

\* setViewBox, setWhiteQuads, setBlackQuads with the result r of the effect
SetLayout(st, r) ==
    [st EXCEPT !.whiteQuads = r.whites, !.blackQuads = r.blacks, !.viewBox = r.viewBox,
               !.layout = [whiteCount |-> r.whiteCount, span |-> r.span,
                           boundaries |-> r.boundaries, extents |-> r.extents,
                           viewBox |-> r.viewBox]]

RunLayout(st, p) ==
    SetLayout(st, LayoutEffect(p, EffectiveWhiteKeys(p.numWhiteKeys, st.autoWhiteKeys),
                               st.viewBox))

\* a variant of the first list without d
LayoutDepsWithoutD(p, auto) ==
    << EffectiveWhiteKeys(p.numWhiteKeys, auto), p.startOn, p.thickness, p.whiteKeySpan,
       p.blackWidthRatio, p.blackDepth, p.strokeWidth, p.fitViewBox, p.viewBoxPadding,
       p.orientation >>

\* dependency lists of the three effects
LayoutDeps(p, auto) ==
    << p.d, EffectiveWhiteKeys(p.numWhiteKeys, auto), p.startOn, p.thickness, p.whiteKeySpan,
       p.blackWidthRatio, p.blackDepth, p.strokeWidth, p.fitViewBox, p.viewBoxPadding,
       p.orientation >>
SvgViewBoxDeps(p) == << p.svgViewBox >>
DensityDeps(p) == << p.whiteKeyDensity, p.numWhiteKeys >>

\* the re-render after autoWhiteKeys was set: the layout effect runs again
\* when its dependencies differ from those of the render with `auto`
Rerender(auto, p, st) ==
    IF LayoutDeps(p, st.autoWhiteKeys) # LayoutDeps(p, auto) THEN RunLayout(st, p) ELSE st

\* the passive effects whose dependencies changed, in the order of the source
PassiveEffects(st, op, np, width, mount) ==
    IF mount \/ DensityDeps(np) # DensityDeps(op)
    THEN DensityEffect(IF mount \/ SvgViewBoxDeps(np) # SvgViewBoxDeps(op)
                       THEN SvgViewBoxEffect(st, np) ELSE st, np, width)
    ELSE IF SvgViewBoxDeps(np) # SvgViewBoxDeps(op) THEN SvgViewBoxEffect(st, np)
    ELSE st

\* A render with props np after a render with props op (mount: the first
\* render), until no effect is left to run: the layout effect, then the
\* passive effects in order, then the layout effect again when the density
\* effect changed the effective key count.
Commit(st, op, np, width, mount) ==
    Rerender(st.autoWhiteKeys, np,
             PassiveEffects(IF mount \/ LayoutDeps(np, st.autoWhiteKeys)
                                        # LayoutDeps(op, st.autoWhiteKeys)
                            THEN RunLayout(st, np) ELSE st,
                            op, np, width, mount))

\* the density effect runs for the render np after op and reaches measure()
Measures(op, np, mount) ==
    /\ mount \/ DensityDeps(np) # DensityDeps(op)
    /\ np.numWhiteKeys = None
    /\ np.whiteKeyDensity = "auto"

\* a state update made by a resize callback, and the re-render it causes
AfterResize(st, p, width) == Rerender(st.autoWhiteKeys, p, updateFromWidth(st, width))

Becomes(st) ==
    /\ densityRef' = st.densityRef
    /\ autoWhiteKeys' = st.autoWhiteKeys
    /\ whiteQuads' = st.whiteQuads
    /\ blackQuads' = st.blackQuads
    /\ viewBox' = st.viewBox
    /\ listening' = st.listening
    /\ layout' = st.layout

\* --------------------------------------------------------------------------
\* Inputs
\* --------------------------------------------------------------------------

\* integer key counts 1..MaxWhiteKeys are requested, besides fractional,
\* zero and negative requests
MaxWhiteKeys == 9
\* Spec mounts the component with numWhiteKeys = MountWhiteKeys
MountWhiteKeys == 3
\* Spec: at most this many props other than d and whiteKeyDensity differ
\* from the props of the first render
MaxOverrides == 1

KeyRequests == {I(n) : n \in 1..MaxWhiteKeys} \cup {Q(-3, 2), I(0), Q(1, 2), Q(5, 2)}
SpanRequests == {I(-1), I(0), I(5), I(150)}
WidthRatios == {Q(62, 100), I(0), I(3)}
\* thickness and blackDepth
Styles == {<< I(80), Q(64, 100) >>, << I(6), I(1) >>}
StrokeWidths == {I(1), I(3)}
Paddings == {I(0), I(10)}
CustomViewBoxes == {<< I(0), I(0), I(100), I(100) >>}
Densities == {"xs", "sm", "md", "lg", "xl"}
\* widths of the svg element as the resize callbacks measure them
Widths == {I(0), I(520), I(600), I(1200), I(1500)}

\* --------------------------------------------------------------------------
\* Actions
\* --------------------------------------------------------------------------

\* the first render with props p: hooks hold their initial values, no effect
\* has run
Holds(st) ==
    /\ densityRef = st.densityRef
    /\ autoWhiteKeys = st.autoWhiteKeys
    /\ whiteQuads = st.whiteQuads
    /\ blackQuads = st.blackQuads
    /\ viewBox = st.viewBox
    /\ listening = st.listening
    /\ layout = st.layout

FirstRender(p) ==
    /\ props = p
    /\ mounted = FALSE
    /\ measured = I(DEFAULT_VIEWPORT_WIDTH)
    /\ Holds(InitialState(p))

\* the effects of the first commit; width is what measure() reads
Mount(width) ==
    /\ ~mounted
    /\ mounted' = TRUE
    /\ props' = props
    /\ measured' = IF Measures(props, props, TRUE) THEN width ELSE measured
    /\ Becomes(Commit(State, props, props, width, TRUE))

\* the parent renders the mounted component with props np
Render(np, width) ==
    /\ mounted
    /\ np # props
    /\ mounted' = mounted
    /\ props' = np
    /\ measured' = IF Measures(props, np, FALSE) THEN width ELSE measured
    /\ Becomes(Commit(State, props, np, width, FALSE))

SetD(v) == Render([props EXCEPT !.d = v], NaN)
SetNumWhiteKeys(v, width) == Render([props EXCEPT !.numWhiteKeys = v], width)
SetWhiteKeyDensity(v, width) == Render([props EXCEPT !.whiteKeyDensity = v], width)
SetStartOn(v) == Render([props EXCEPT !.startOn = v], NaN)
SetThickness(v) == Render([props EXCEPT !.thickness = v], NaN)
SetWhiteKeySpan(v) == Render([props EXCEPT !.whiteKeySpan = v], NaN)
SetBlackWidthRatio(v) == Render([props EXCEPT !.blackWidthRatio = v], NaN)
SetBlackDepth(v) == Render([props EXCEPT !.blackDepth = v], NaN)
SetStrokeWidth(v) == Render([props EXCEPT !.strokeWidth = v], NaN)
SetOrientation(v) == Render([props EXCEPT !.orientation = v], NaN)
SetFitViewBox(v) == Render([props EXCEPT !.fitViewBox = v], NaN)
SetViewBoxPadding(v) == Render([props EXCEPT !.viewBoxPadding = v], NaN)
SetSvgViewBox(v) == Render([props EXCEPT !.svgViewBox = v], NaN)

\* window 'resize' event: measure(), lines 286-289 and 306, when the
\* listener is installed; nothing otherwise
WindowResize(width) ==
    /\ mounted
    /\ UNCHANGED << props, mounted >>
    /\ measured' = IF listening THEN width ELSE measured
    /\ Becomes(IF listening THEN AfterResize(State, props, width) ELSE State)

\* the svg element is resized: the ResizeObserver callback with one entry,
\* lines 295-302, when the observer is installed; nothing otherwise
ResizeObserved(width) ==
    /\ mounted
    /\ UNCHANGED << props, mounted >>
    /\ measured' = IF listening /\ IsFinite(width) THEN width ELSE measured
    /\ Becomes(IF listening /\ IsFinite(width) THEN AfterResize(State, props, width)
               ELSE State)

\* --------------------------------------------------------------------------
\* Spec: the mounted component under prop changes and resize signals
\* --------------------------------------------------------------------------

MountProps(d) == [DefaultProps(d) EXCEPT !.numWhiteKeys = I(MountWhiteKeys)]

Overrides(p) ==
    Cardinality({f \in (DOMAIN p) \ {"d", "whiteKeyDensity"} : p[f] # MountProps(p.d)[f]})

InScope(np) == Overrides(np) <= MaxOverrides

SpecPaths == {PathStraight, PathFold}
SpecKeyRequests == {None, I(MountWhiteKeys), Q(5, 2)}
SpecDensities == {"auto", "xs", "lg"}

Init == \E d \in SpecPaths : FirstRender(MountProps(d))

Next ==
    \/ \E width \in Widths : Mount(width)
    \/ \E v \in SpecPaths : SetD(v)
    \/ \E v \in SpecKeyRequests, width \in Widths :
          InScope([props EXCEPT !.numWhiteKeys = v]) /\ SetNumWhiteKeys(v, width)
    \/ \E v \in SpecDensities, width \in Widths : SetWhiteKeyDensity(v, width)
    \/ \E v \in {"A", "C"} : InScope([props EXCEPT !.startOn = v]) /\ SetStartOn(v)
    \/ \E v \in {s[1] : s \in Styles} :
          InScope([props EXCEPT !.thickness = v]) /\ SetThickness(v)
    \/ \E v \in {None, I(150)} :
          InScope([props EXCEPT !.whiteKeySpan = v]) /\ SetWhiteKeySpan(v)
    \/ \E v \in {Q(62, 100), I(0)} :
          InScope([props EXCEPT !.blackWidthRatio = v]) /\ SetBlackWidthRatio(v)
    \/ \E v \in {s[2] : s \in Styles} :
          InScope([props EXCEPT !.blackDepth = v]) /\ SetBlackDepth(v)
    \/ \E v \in StrokeWidths : InScope([props EXCEPT !.strokeWidth = v]) /\ SetStrokeWidth(v)
    \/ \E v \in {1, -1} : InScope([props EXCEPT !.orientation = v]) /\ SetOrientation(v)
    \/ \E v \in BOOLEAN : InScope([props EXCEPT !.fitViewBox = v]) /\ SetFitViewBox(v)
    \/ \E v \in Paddings \cup {None} :
          InScope([props EXCEPT !.viewBoxPadding = v]) /\ SetViewBoxPadding(v)
    \/ \E v \in CustomViewBoxes \cup {None} :
          InScope([props EXCEPT !.svgViewBox = v]) /\ SetSvgViewBox(v)
    \/ \E width \in Widths : WindowResize(width)
    \/ \E width \in Widths : ResizeObserved(width)

Spec == Init /\ [][Next]_vars

\* --------------------------------------------------------------------------
\* SpecLayout: the layout computation as a function of its inputs.  The
\* component is rendered with any combination of the geometry props and
\* mounted; afterwards orientation changes, and strokeWidth, a dependency of
\* the layout effect that the quads do not depend on.
\* --------------------------------------------------------------------------

LayoutProps ==
    {[DefaultProps(d) EXCEPT !.numWhiteKeys = k, !.whiteKeySpan = e, !.startOn = a,
                             !.blackWidthRatio = r, !.thickness = s[1],
                             !.blackDepth = s[2]] :
        d \in Paths, k \in KeyRequests, e \in SpanRequests \cup {None}, a \in {"A", "C"},
        r \in WidthRatios, s \in Styles}

\* the 12 keys of the 1200-unit line and the 52 white keys of a piano, with
\* the defaults for the rest
Keyboards ==
    {[DefaultProps(d) EXCEPT !.numWhiteKeys = k, !.startOn = a] :
        d \in {PathStraight, PathFold}, k \in {I(12), I(52)}, a \in {"A", "C"}}

\* keyboards with a negative blackWidthRatio
Narrowed ==
    {[DefaultProps(d) EXCEPT !.numWhiteKeys = k, !.whiteKeySpan = e,
                             !.blackWidthRatio = Q(-1, 2)] :
        d \in {PathStraight, PathShort}, k \in {I(2), I(MaxWhiteKeys)},
        e \in {None, I(150)}}

\* keyboards on the closed curve of length 0.0045, whose keys are about as
\* wide as the 0.001 margin of the black keys
Loops ==
    {[DefaultProps(PathLoop) EXCEPT !.numWhiteKeys = k, !.startOn = a,
                                    !.blackWidthRatio = r] :
        k \in {I(3), I(4)}, a \in {"A", "C"}, r \in {Q(62, 100), I(1)}}

\* keyboards whose black keys are as wide as the white ones
Touching ==
    {[DefaultProps(d) EXCEPT !.numWhiteKeys = I(MaxWhiteKeys), !.startOn = a,
                             !.blackWidthRatio = I(1)] :
        d \in {PathStraight, PathSlant}, a \in {"A", "C"}}

InitLayout ==
    \E p \in LayoutProps \cup Keyboards \cup Narrowed \cup Loops \cup Touching :
        FirstRender(p)

NextLayout ==
    \/ \E width \in {I(DEFAULT_VIEWPORT_WIDTH)} : Mount(width)
    \/ \E v \in {1, -1} : SetOrientation(v)
    \/ \E v \in StrokeWidths : SetStrokeWidth(v)

SpecLayout == InitLayout /\ [][NextLayout]_vars

\* --------------------------------------------------------------------------
\* SpecDensity: the component without numWhiteKeys, under every density
\* setting, with widths on both sides of every breakpoint.  The curves are
\* the two shortest, whose quads are the cheapest to compute.
\* --------------------------------------------------------------------------

TierWidths ==
    {I(-5), I(0), I(1), I(520), Q(1041, 2), I(768), I(769), I(1024), I(1025), I(1366),
     I(1367), I(5000)}

DensityProps ==
    {[DefaultProps(d) EXCEPT !.whiteKeyDensity = s] :
        d \in {PathPoint, PathShort}, s \in Densities \cup {"auto"}}

InitDensity == \E p \in DensityProps : FirstRender(p)

NextDensity ==
    \/ \E width \in TierWidths : Mount(width)
    \/ \E v \in Densities \cup {"auto"}, width \in {I(520), I(1367)} :
          SetWhiteKeyDensity(v, width)
    \/ \E width \in TierWidths : WindowResize(width)
    \/ \E width \in TierWidths \cup {NaN} : ResizeObserved(width)

SpecDensity == InitDensity /\ [][NextDensity]_vars

\* --------------------------------------------------------------------------
\* Properties.  What is expected is written from the inputs (the props and
\* the curve) and compared with what the layout effect left in the state.
\* --------------------------------------------------------------------------

\* the key count requested and the length of the curve
Requested == EffectiveWhiteKeys(props.numWhiteKeys, autoWhiteKeys)
CurveLength == props.d.len

\* max(1, floor(k))
ExpectedCount ==
    IF Requested[1] \div Requested[2] >= 1 THEN Requested[1] \div Requested[2] ELSE 1

\* the span override is in force
SpanGiven == props.whiteKeySpan # None /\ props.whiteKeySpan[1] > 0

ExpectedSpan ==
    IF SpanGiven THEN props.whiteKeySpan ELSE RDiv(CurveLength, I(ExpectedCount))

Epsilon == Q(1, 1000)

\* the note of the white key at `index`
Cadence(startOn, index) ==
    IF startOn = "A" THEN << "A", "B", "C", "D", "E", "F", "G" >>[(index % 7) + 1]
    ELSE << "C", "D", "E", "F", "G", "A", "B" >>[(index % 7) + 1]

\* the indices of 0..N-2 whose note is followed by a black key
Eligible(startOn, count) ==
    {index \in 0..(count - 2) : Cadence(startOn, index) \notin {"B", "E"}}

\* C1: once the layout effect has run, the key count is max(1, floor(k)),
\* the span is the override e when e > 0 and L / N otherwise, and
\* boundaries[i] = min(i * span, L) for every i in 0..N.
C1_PartitionFormula ==
    mounted =>
        /\ layout.whiteCount = ExpectedCount
        /\ layout.span = ExpectedSpan
        /\ DOMAIN layout.boundaries = 0..ExpectedCount
        /\ \A i \in 0..ExpectedCount :
              layout.boundaries[i] = RMin(RMul(I(i), ExpectedSpan), CurveLength)

\* a span override of 150 on the 1200-unit line with 9 keys: the boundaries
\* run 0, 150, ... and the last two are both clamped to 1200
C1_Witness ==
    /\ mounted
    /\ props.d = PathStraight
    /\ props.whiteKeySpan = I(150)
    /\ layout.whiteCount = MaxWhiteKeys
    /\ layout.boundaries[1] = I(150)
    /\ layout.boundaries[MaxWhiteKeys - 1] = I(1200)
    /\ layout.boundaries[MaxWhiteKeys] = I(1200)

\* C2: the partition has keyCount + 1 boundaries, they never decrease, the
\* first is 0, and the last is totalLength whenever span * keyCount >=
\* totalLength.
C2_BoundariesOrdered ==
    mounted =>
        /\ layout.whiteCount >= 1
        /\ DOMAIN layout.boundaries = 0..layout.whiteCount
        /\ Cardinality(DOMAIN layout.boundaries) = layout.whiteCount + 1
        /\ \A i \in 0..(layout.whiteCount - 1) :
              RLe(layout.boundaries[i], layout.boundaries[i + 1])
        /\ layout.boundaries[0] = I(0)
        /\ RLe(CurveLength, RMul(layout.span, I(layout.whiteCount)))
              => layout.boundaries[layout.whiteCount] = CurveLength

\* the derived span on a curve of positive length: span * keyCount is the
\* length, the boundaries increase strictly and the last is the length
C2_Witness ==
    /\ mounted
    /\ ~SpanGiven
    /\ layout.whiteCount = MaxWhiteKeys
    /\ RMul(layout.span, I(layout.whiteCount)) = CurveLength
    /\ RLt(I(0), CurveLength)
    /\ \A i \in 0..(layout.whiteCount - 1) :
          RLt(layout.boundaries[i], layout.boundaries[i + 1])
    /\ layout.boundaries[layout.whiteCount] = CurveLength

\* C3: every black key pushed for boundary index i has
\* boundaries[i] + 0.001 <= s0 < s1 <= boundaries[i + 2] - 0.001, and there
\* is one black quad for each such extent.
C3_BlackWithinNeighbours ==
    mounted =>
        /\ Len(blackQuads) = Len(layout.extents)
        /\ \A k \in 1..Len(layout.extents) :
              /\ RLe(RAdd(layout.boundaries[layout.extents[k].index], Epsilon),
                     layout.extents[k].s0)
              /\ RLt(layout.extents[k].s0, layout.extents[k].s1)
              /\ RLe(layout.extents[k].s1,
                     RSub(layout.boundaries[layout.extents[k].index + 2], Epsilon))

\* an uneven partition (the second key is cut short by the end of the curve)
\* with a black key three spans wide: its extent is cut at both ends
C3_Witness ==
    /\ mounted
    /\ SpanGiven
    /\ props.blackWidthRatio = I(3)
    /\ Len(layout.extents) > 0
    /\ layout.extents[1].index = 0
    /\ RLt(RSub(layout.boundaries[2], layout.boundaries[1]), layout.span)
    /\ RLt(layout.boundaries[1], layout.boundaries[2])
    /\ layout.extents[1].s0 = RAdd(layout.boundaries[0], Epsilon)
    /\ layout.extents[1].s1 = RSub(layout.boundaries[2], Epsilon)

\* C4: there are at most keyCount - 1 black keys, each placed at an index of
\* 0..keyCount-2, in increasing order of index, and none at an index whose
\* note is B or E, for startOn "A" and for startOn "C".
C4_BlackCountAndNotes ==
    mounted =>
        /\ Len(blackQuads) <= layout.whiteCount - 1
        /\ Len(blackQuads) = Len(layout.extents)
        /\ \A k \in 1..Len(layout.extents) :
              /\ layout.extents[k].index \in 0..(layout.whiteCount - 2)
              /\ Cadence(props.startOn, layout.extents[k].index) \notin {"B", "E"}
              /\ k > 1 => layout.extents[k - 1].index < layout.extents[k].index

\* startOn "C" with 9 white keys: the notes are C D E F G A B C C, and the
\* six black keys sit at the indices 0, 1, 3, 4, 5, 7
C4_Witness ==
    /\ mounted
    /\ props.startOn = "C"
    /\ layout.whiteCount = 9
    /\ Len(blackQuads) = 6
    /\ {layout.extents[k].index : k \in 1..Len(layout.extents)} = {0, 1, 3, 4, 5, 7}

\* C5: the count used is max(1, floor(requested)) for every request, that
\* many white quads are emitted, and a request of 0 or below yields one
\* white key and no black key.
C5_CountCoerced ==
    mounted =>
        /\ layout.whiteCount = ExpectedCount
        /\ Len(whiteQuads) = ExpectedCount
        /\ Requested[1] <= 0 => Len(whiteQuads) = 1 /\ Len(blackQuads) = 0
        /\ (Requested[2] # 1 /\ Requested[1] > Requested[2])
              => Len(whiteQuads) * Requested[2] < Requested[1]
                 /\ Requested[1] < (Len(whiteQuads) + 1) * Requested[2]

\* a request of -1.5 keys: one white quad, no black quad
C5_Witness ==
    /\ mounted
    /\ props.numWhiteKeys = Q(-3, 2)
    /\ Len(whiteQuads) = 1
    /\ Len(blackQuads) = 0

\* the corner (x, y) of a quad: 1 and 4 are at s0, 2 and 3 at s1
Corner(quad, c) == [x |-> quad[2 * c - 1], y |-> quad[2 * c]]

\* q is the mirror image of r through the point m of the centre line
MirrorAt(m, q, r) ==
    RAdd(q.x, r.x) = RMul(I(2), m.x) /\ RAdd(q.y, r.y) = RMul(I(2), m.y)

\* the black quad `flipped` is `quad` mirrored across the centre line of the
\* path d, for the key of arc-length extent e
Mirrored(d, e, quad, flipped) ==
    /\ MirrorAt(getPointAtLength(d, e.s0), Corner(quad, 1), Corner(flipped, 1))
    /\ MirrorAt(getPointAtLength(d, e.s1), Corner(quad, 2), Corner(flipped, 2))
    /\ MirrorAt(getPointAtLength(d, e.s1), Corner(quad, 3), Corner(flipped, 3))
    /\ MirrorAt(getPointAtLength(d, e.s0), Corner(quad, 4), Corner(flipped, 4))

\* the point at the offset c along the normal of the frame g
Offset(g, c) == [x |-> RAdd(g.p.x, RMul(g.n.x, c)), y |-> RAdd(g.p.y, RMul(g.n.y, c))]

\* the anchored edge of the black quad lies at -orientation * thickness / 2
\* along the normal, and the opposite edge a further orientation * depth
AnchoredOn(d, e, quad, orientation, thickness, depth) ==
    /\ Corner(quad, 1) = Offset(geoAt(d, e.s0), RMul(I(-orientation), RDiv(thickness, I(2))))
    /\ Corner(quad, 2) = Offset(geoAt(d, e.s1), RMul(I(-orientation), RDiv(thickness, I(2))))
    /\ Corner(quad, 3) =
          Offset(geoAt(d, e.s1), RAdd(RMul(I(-orientation), RDiv(thickness, I(2))),
                                      RMul(I(orientation), depth)))
    /\ Corner(quad, 4) =
          Offset(geoAt(d, e.s0), RAdd(RMul(I(-orientation), RDiv(thickness, I(2))),
                                      RMul(I(orientation), depth)))

\* a render changes orientation and nothing else
OrientationFlipped ==
    /\ mounted
    /\ props'.orientation = -props.orientation
    /\ props' = [props EXCEPT !.orientation = props'.orientation]

\* C6: a render that only switches orientation leaves the white quads and
\* the extents [s0, s1] of the black keys as they were, puts the anchored
\* edge of every black key at the negated offset (-thickness / 2 for
\* orientation 1, +thickness / 2 for -1) with the extrusion reversed, and so
\* makes each black quad the mirror image of what it was across the centre
\* line.
C6_OrientationMirrors ==
    [][OrientationFlipped =>
          /\ whiteQuads' = whiteQuads
          /\ layout'.extents = layout.extents
          /\ Len(blackQuads') = Len(blackQuads)
          /\ \A k \in 1..Len(blackQuads) :
                /\ Mirrored(props.d, layout.extents[k], blackQuads[k], blackQuads'[k])
                /\ AnchoredOn(props.d, layout.extents[k], blackQuads[k], props.orientation,
                              props.thickness, RMul(props.thickness, props.blackDepth))
                /\ AnchoredOn(props.d, layout.extents[k], blackQuads'[k],
                              props'.orientation, props.thickness,
                              RMul(props.thickness, props.blackDepth))]_vars

\* the straight line after the switch to orientation -1, thickness 80 and
\* depth 0.64: the anchored edge of the first black key is at y = +40 and
\* the opposite edge at y = 40 - 51.2
C6_Witness ==
    /\ mounted
    /\ props.orientation = -1
    /\ props.d = PathStraight
    /\ props.thickness = I(80)
    /\ props.blackDepth = Q(64, 100)
    /\ Len(blackQuads) > 0
    /\ blackQuads[1][2] = I(40)
    /\ blackQuads[1][8] = Q(-56, 5)

\* the inputs of the keyboard computation: curve, key count, span,
\* thickness, ratios, startOn, orientation
GeometryInputs ==
    << props.d, Requested, props.whiteKeySpan, props.thickness, props.blackWidthRatio,
       props.blackDepth, props.startOn, props.orientation >>

\* the quads held are those of a computation run afresh on the inputs
\* (whatever viewBox the earlier runs left)
SameQuads(r) == whiteQuads = r.whites /\ blackQuads = r.blacks
QuadsAreFresh == SameQuads(LayoutEffect(props, Requested, DEFAULTS.initialViewBox))

\* C7: whatever was computed before, the quads of the mounted component are
\* those the computation gives on its present inputs, and a step that leaves
\* the inputs as they were (among them the steps that run the layout effect
\* again for a change of strokeWidth, fitViewBox or viewBoxPadding) leaves
\* both quad lists identical, coordinate for coordinate and in order.
C7_Idempotent ==
    /\ [](mounted => QuadsAreFresh)
    /\ [][(mounted /\ GeometryInputs' = GeometryInputs)
             => (whiteQuads' = whiteQuads /\ blackQuads' = blackQuads)]_vars

\* the layout effect has run again on the inputs of the mount (strokeWidth
\* is a dependency of the effect and was changed from 1 to 3), for a
\* keyboard with black keys
C7_Witness ==
    /\ mounted
    /\ props.strokeWidth = I(3)
    /\ props.orientation = DEFAULTS.orientation
    /\ props.d = PathStraight
    /\ Len(whiteQuads) = MaxWhiteKeys
    /\ Len(blackQuads) > 0
    /\ viewBox[1] = I(-12)

Cross(a, b) == RSub(RMul(a.x, b.y), RMul(b.x, a.y))

\* twice the signed area of a quad (the shoelace sum over its four corners)
TwiceArea(quad) ==
    RAdd(RAdd(Cross(Corner(quad, 1), Corner(quad, 2)),
              Cross(Corner(quad, 2), Corner(quad, 3))),
         RAdd(Cross(Corner(quad, 3), Corner(quad, 4)),
              Cross(Corner(quad, 4), Corner(quad, 1))))

\* C8: on a curve of length 0, with or without a span override, the layout
\* effect runs to its end, every boundary is 0 and every one of the
\* max(1, floor(k)) white quads has area 0.
C8_DegenerateCurve ==
    (mounted /\ CurveLength = I(0)) =>
        /\ \A i \in 0..layout.whiteCount : layout.boundaries[i] = I(0)
        /\ Len(whiteQuads) = ExpectedCount
        /\ \A k \in 1..Len(whiteQuads) : TwiceArea(whiteQuads[k]) = I(0)

\* the point (20, 120) with a span override and MaxWhiteKeys keys: the last
\* white quad has its four corners on the point
C8_Witness ==
    /\ mounted
    /\ props.d = PathPoint
    /\ SpanGiven
    /\ Len(whiteQuads) = MaxWhiteKeys
    /\ whiteQuads[MaxWhiteKeys] =
          << I(20), I(120), I(20), I(120), I(20), I(120), I(20), I(120) >>

SqDist(a, b) ==
    RAdd(RMul(RSub(a.x, b.x), RSub(a.x, b.x)), RMul(RSub(a.y, b.y), RSub(a.y, b.y)))

\* the two samples geoAt takes around s are the same point, so that the
\* chord is zero and the normal it returns is (0, 0)
ChordDegenerate(d, s) ==
    getPointAtLength(d, clamp(d.len, RAdd(s, Q(1, 2))))
        = getPointAtLength(d, clamp(d.len, RSub(s, Q(1, 2))))

\* the corners of the white quad of [s0, s1], in the order start + h,
\* end + h, end - h, start - h along the normals
WhiteQuadAsStated(d, s0, s1, h, quad) ==
    /\ Corner(quad, 1) = Offset(geoAt(d, s0), h)
    /\ Corner(quad, 2) = Offset(geoAt(d, s1), h)
    /\ Corner(quad, 3) = Offset(geoAt(d, s1), RNeg(h))
    /\ Corner(quad, 4) = Offset(geoAt(d, s0), RNeg(h))

\* the square of the separation of the long edges at the boundary s
SeparationSq(d, s, thickness) ==
    IF ChordDegenerate(d, s) THEN I(0) ELSE RMul(thickness, thickness)

\* C9: each white quad is [start.p + h*start.n, end.p + h*end.n,
\* end.p - h*end.n, start.p - h*start.n] in that order with h = thickness/2
\* for every key; its long edges are separated by exactly thickness at every
\* boundary where the sampled chord is not zero, and by 0 where it is zero
\* (the normal is then (0, 0)); 12 keys on the 1200-unit line have the
\* boundaries 0, 100, ..., 1200 and the separation thickness at each.
C9_WhiteQuadCorners ==
    mounted =>
        /\ \A k \in 1..Len(whiteQuads) :
              /\ WhiteQuadAsStated(props.d, layout.boundaries[k - 1], layout.boundaries[k],
                                   RDiv(props.thickness, I(2)), whiteQuads[k])
              /\ SqDist(Corner(whiteQuads[k], 1), Corner(whiteQuads[k], 4))
                    = SeparationSq(props.d, layout.boundaries[k - 1], props.thickness)
              /\ SqDist(Corner(whiteQuads[k], 2), Corner(whiteQuads[k], 3))
                    = SeparationSq(props.d, layout.boundaries[k], props.thickness)
        /\ (props.d = PathStraight /\ Requested = I(12) /\ ~SpanGiven) =>
              /\ \A i \in 0..12 : layout.boundaries[i] = I(100 * i)
              /\ \A k \in 1..12 :
                    /\ SqDist(Corner(whiteQuads[k], 1), Corner(whiteQuads[k], 4))
                          = RMul(props.thickness, props.thickness)
                    /\ SqDist(Corner(whiteQuads[k], 2), Corner(whiteQuads[k], 3))
                          = RMul(props.thickness, props.thickness)

\* C9 as stated: the long edges of every white quad are separated by exactly
\* thickness at both of its boundaries.
C9_AsStated ==
    mounted =>
        \A k \in 1..Len(whiteQuads) :
            /\ WhiteQuadAsStated(props.d, layout.boundaries[k - 1], layout.boundaries[k],
                                 RDiv(props.thickness, I(2)), whiteQuads[k])
            /\ SqDist(Corner(whiteQuads[k], 1), Corner(whiteQuads[k], 4))
                  = RMul(props.thickness, props.thickness)
            /\ SqDist(Corner(whiteQuads[k], 2), Corner(whiteQuads[k], 3))
                  = RMul(props.thickness, props.thickness)

\* two keys of thickness 80 on the path that doubles back at s = 3: the
\* first key is 80 wide at s = 0 and has both end corners on the cusp (3, 0)
C9_Witness ==
    /\ mounted
    /\ props.d = PathFold
    /\ props.thickness = I(80)
    /\ layout.whiteCount = 2
    /\ layout.boundaries[1] = I(3)
    /\ whiteQuads[1] = << I(0), I(40), I(3), I(0), I(3), I(0), I(0), I(-40) >>

\* C10: with the derived span, blackWidthRatio > 0 and span > 0.001, a black
\* key is emitted at exactly the indices of 0..N-2 whose note is not B or E;
\* 52 white keys from "A" give 36 black keys, 88 keys in all.
C10_BlackCount ==
    (mounted /\ ~SpanGiven /\ props.blackWidthRatio[1] > 0 /\ RLt(Epsilon, layout.span)) =>
        /\ Len(blackQuads) = Cardinality(Eligible(props.startOn, layout.whiteCount))
        /\ {layout.extents[k].index : k \in 1..Len(layout.extents)}
              = Eligible(props.startOn, layout.whiteCount)
        /\ (Requested = I(52) /\ props.startOn = "A") =>
              /\ Len(blackQuads) = 36
              /\ Len(whiteQuads) + Len(blackQuads) = 88

\* the 52 white keys from "A" on the 1200-unit line, with 36 black keys
C10_Witness ==
    /\ mounted
    /\ props.d = PathStraight
    /\ props.numWhiteKeys = I(52)
    /\ props.startOn = "A"
    /\ props.whiteKeySpan = None
    /\ Len(whiteQuads) = 52
    /\ Len(blackQuads) = 36

\* the tier of the ascending table for the width w, and the key count of
\* each tier
TierOf(w) ==
    IF RLe(w, I(520)) THEN "xs"
    ELSE IF RLe(w, I(768)) THEN "sm"
    ELSE IF RLe(w, I(1024)) THEN "md"
    ELSE IF RLe(w, I(1366)) THEN "lg"
    ELSE "xl"

TierKeys == [xs |-> 28, sm |-> 36, md |-> 44, lg |-> 52, xl |-> 60]

PositiveFinite(w) == w[2] # 0 /\ w[1] > 0

\* C11: while the component follows the width (setting "auto", no
\* numWhiteKeys), the tier it holds for a positive finite measured width w is
\* xs for w <= 520, sm for w <= 768, md for w <= 1024, lg for w <= 1366 and
\* xl above, the key count is 28, 36, 44, 52, 60 for these tiers and that many
\* white keys are laid out; no narrower width has a larger key count; an
\* explicit tier is returned unchanged for the measured width and is the
\* tier held while it is the setting.
C11_DensityTiers ==
    /\ \A s \in {"xs", "sm", "md", "lg", "xl"} : chooseDensity(measured, s) = s
    /\ (listening /\ PositiveFinite(measured)) =>
          /\ densityRef = TierOf(measured)
          /\ autoWhiteKeys = TierKeys[TierOf(measured)]
          /\ Len(whiteQuads) = TierKeys[TierOf(measured)]
          /\ \A w \in TierWidths :
                (PositiveFinite(w) /\ RLe(w, measured))
                    => TierKeys[chooseDensity(w, "auto")] <= autoWhiteKeys
    /\ (mounted /\ props.numWhiteKeys = None /\ props.whiteKeyDensity # "auto") =>
          /\ densityRef = props.whiteKeyDensity
          /\ autoWhiteKeys = TierKeys[props.whiteKeyDensity]
          /\ Len(whiteQuads) = TierKeys[props.whiteKeyDensity]

\* a width of 520.5, just above the first breakpoint, was measured: tier sm
\* with 36 white keys
C11_Witness ==
    /\ listening
    /\ measured = Q(1041, 2)
    /\ densityRef = "sm"
    /\ autoWhiteKeys = 36
    /\ Len(whiteQuads) = 36

\* max(1, floor(numWhiteKeys)) of the present props
KeysGiven ==
    IF props.numWhiteKeys[1] \div props.numWhiteKeys[2] >= 1
    THEN props.numWhiteKeys[1] \div props.numWhiteKeys[2] ELSE 1

C13_DefaultKeyCount ==
    (mounted /\ props.numWhiteKeys = None /\ props.whiteKeyDensity = DEFAULTS.whiteKeyDensity)
        => Len(whiteQuads) = 52

\* every vertex of every white and black quad held
Vertices ==
    {Corner(whiteQuads[k], c) : k \in 1..Len(whiteQuads), c \in 1..4}
        \cup {Corner(blackQuads[k], c) : k \in 1..Len(blackQuads), c \in 1..4}

\* viewBoxPadding when given (0 included), otherwise max(8, strokeWidth * 4)
ExpectedPad ==
    IF props.viewBoxPadding # None THEN props.viewBoxPadding
    ELSE IF RLt(I(8), RMul(props.strokeWidth, I(4))) THEN RMul(props.strokeWidth, I(4))
    ELSE I(8)

\* frame is [minX - pad, minY - pad, (maxX - minX) + 2 pad, (maxY - minY) + 2 pad]
\* for the least and greatest coordinates of the vertices: each of the four
\* bounds it stands for is the coordinate of a vertex and bounds them all
FrameOf(frame, pad, vertices) ==
    /\ \E v \in vertices : v.x = RAdd(frame[1], pad)
    /\ \E v \in vertices : v.y = RAdd(frame[2], pad)
    /\ \E v \in vertices : v.x = RSub(RAdd(frame[1], frame[3]), pad)
    /\ \E v \in vertices : v.y = RSub(RAdd(frame[2], frame[4]), pad)
    /\ \A v \in vertices :
          /\ RLe(RAdd(frame[1], pad), v.x)
          /\ RLe(v.x, RSub(RAdd(frame[1], frame[3]), pad))
          /\ RLe(RAdd(frame[2], pad), v.y)
          /\ RLe(v.y, RSub(RAdd(frame[2], frame[4]), pad))

\* every vertex lies inside the frame
Encloses(frame, vertices) ==
    \A v \in vertices :
        /\ RLe(frame[1], v.x) /\ RLe(v.x, RAdd(frame[1], frame[3]))
        /\ RLe(frame[2], v.y) /\ RLe(v.y, RAdd(frame[2], frame[4]))

\* C14: with fitViewBox true, the frame the layout effect leaves is
\* [minX - pad, minY - pad, (maxX - minX) + 2 pad, (maxY - minY) + 2 pad] over
\* every vertex of every white and black quad, with pad = viewBoxPadding
\* when given (0 included) and max(8, strokeWidth * 4) otherwise; for
\* pad >= 0 every vertex lies inside it.
C14_FittedFrame ==
    (mounted /\ props.fitViewBox) =>
        /\ FrameOf(layout.viewBox, ExpectedPad, Vertices)
        /\ RLe(I(0), ExpectedPad) => Encloses(layout.viewBox, Vertices)

\* three keys on the 1200-unit line with viewBoxPadding = 0: the frame is
\* the bounding box itself
C14_Witness ==
    /\ mounted
    /\ props.fitViewBox
    /\ props.viewBoxPadding = I(0)
    /\ props.d = PathStraight
    /\ Len(whiteQuads) = 3
    /\ Len(blackQuads) = 1
    /\ layout.viewBox = << I(0), I(-40), I(1200), I(80) >>
    /\ viewBox = layout.viewBox

\* C15: whenever svgProps.viewBox is supplied to the mounted component, the
\* viewBox of the svg is the supplied value, whatever props changed since.
C15_CustomViewBoxKept ==
    (mounted /\ props.svgViewBox # None) => viewBox = props.svgViewBox

\* every arc length the layout effect hands to geoAt: the boundaries (for
\* the white quads) and both ends of every black key
ArcLengths ==
    {layout.boundaries[i] : i \in 0..layout.whiteCount}
        \cup {layout.extents[k].s0 : k \in 1..Len(layout.extents)}
        \cup {layout.extents[k].s1 : k \in 1..Len(layout.extents)}

\* C16: for every boundary and every black-key edge s of the computation,
\* the three arguments of the point query (for s, s + 0.5 and s - 0.5) lie
\* in [0, totalLength], each being clamped on its own.
C16_QueriesClamped ==
    mounted =>
        \A s \in ArcLengths :
            /\ \A j \in 1..3 :
                  /\ RLe(I(0), Queries(CurveLength, s)[j])
                  /\ RLe(Queries(CurveLength, s)[j], CurveLength)
            /\ Queries(CurveLength, s)[1] = s
            /\ RLe(RAdd(s, Q(1, 2)), CurveLength)
                  => Queries(CurveLength, s)[2] = RAdd(s, Q(1, 2))
            /\ RLe(Q(1, 2), s) => Queries(CurveLength, s)[3] = RSub(s, Q(1, 2))

\* the curve of length 1/400, shorter than delta: at the boundary 0 the
\* forward sample is clamped to 1/400 and the backward one to 0; at the last
\* boundary likewise
C16_Witness ==
    /\ mounted
    /\ props.d = PathShort
    /\ layout.whiteCount = 2
    /\ Len(layout.extents) = 1
    /\ Queries(CurveLength, layout.boundaries[0]) = << I(0), Q(1, 400), I(0) >>
    /\ Queries(CurveLength, layout.boundaries[2]) = << Q(1, 400), Q(1, 400), I(0) >>

\* the derived span is in force and leaves room for every black key
Roomy == ~SpanGiven /\ props.blackWidthRatio[1] > 0 /\ RLt(Epsilon, layout.span)

\* the indices of 0..N-2 at which no black key was pushed
Blackless ==
    (0..(layout.whiteCount - 2)) \ {layout.extents[k].index : k \in 1..Len(layout.extents)}

\* C17: where every black key has room, the indices without a black key
\* are those whose note is B or E, which are the positions 1 and 4 of the
\* 7-note cycle for startOn "A" (A B C D E F G) and 2 and 6 for startOn "C"
\* (C D E F G A B).
C17_NoBlackAfterBE ==
    (mounted /\ Roomy) =>
        /\ Blackless = {i \in 0..(layout.whiteCount - 2) :
                           Cadence(props.startOn, i) \in {"B", "E"}}
        /\ Blackless = {i \in 0..(layout.whiteCount - 2) :
                           (i % 7) \in (IF props.startOn = "A" THEN {1, 4} ELSE {2, 6})}

\* C17 as stated: the indices without a black key are those with i mod 7 in
\* {3, 6}, the 4th and 7th notes of the cycle.
C17_AsStated ==
    (mounted /\ Roomy) =>
        Blackless = {i \in 0..(layout.whiteCount - 2) : (i % 7) \in {3, 6}}

\* 9 white keys from "A" on the 1200-unit line (A B C D E F G A B): no black
\* key after the keys of index 1 (B) and 4 (E)
C17_Witness ==
    /\ mounted
    /\ Roomy
    /\ props.startOn = "A"
    /\ props.d = PathStraight
    /\ layout.whiteCount = 9
    /\ Blackless = {1, 4}
    /\ Len(blackQuads) = 6

\* for the black key of extent e: its nominal width w = span * blackWidthRatio,
\* the seam it is centred on, and the window it has to stay in
NominalWidth == RMul(layout.span, props.blackWidthRatio)
SeamOf(e) == layout.boundaries[e.index + 1]
WindowLow(e) == RAdd(layout.boundaries[e.index], Epsilon)
WindowHigh(e) == RSub(layout.boundaries[e.index + 2], Epsilon)
NominalLow(e) == RSub(SeamOf(e), RDiv(NominalWidth, I(2)))
NominalHigh(e) == RAdd(SeamOf(e), RDiv(NominalWidth, I(2)))

\* what shifting gives for e: the nominal extent where it fits, moved up to
\* the low edge of the window on a low overflow, then down to the high edge
\* on a high overflow, and the whole window where the window is narrower
\* than w
ShiftedExtent(e) ==
    IF RLt(RSub(WindowHigh(e), WindowLow(e)), NominalWidth)
    THEN << WindowLow(e), WindowHigh(e) >>
    ELSE IF RLt(NominalLow(e), WindowLow(e))
    THEN << WindowLow(e), RAdd(WindowLow(e), NominalWidth) >>
    ELSE IF RLt(WindowHigh(e), NominalHigh(e))
    THEN << RSub(WindowHigh(e), NominalWidth), WindowHigh(e) >>
    ELSE << NominalLow(e), NominalHigh(e) >>

\* C18: every black key emitted has the extent that shifting gives: it is
\* w = span * blackWidthRatio wide whenever the window
\* [boundaries[i] + 0.001, boundaries[i+2] - 0.001] is at least w wide, it is
\* [seam - w/2, seam + w/2] with seam = boundaries[i+1] when no edge
\* overflows, and it is moved as a whole, not cut, when one edge overflows.
C18_ShiftNotTruncate ==
    mounted =>
        \A k \in 1..Len(layout.extents) :
            /\ << layout.extents[k].s0, layout.extents[k].s1 >> = ShiftedExtent(layout.extents[k])
            /\ RLe(NominalWidth, RSub(WindowHigh(layout.extents[k]), WindowLow(layout.extents[k])))
                  => RSub(layout.extents[k].s1, layout.extents[k].s0) = NominalWidth
            /\ (RLe(WindowLow(layout.extents[k]), NominalLow(layout.extents[k]))
                   /\ RLe(NominalHigh(layout.extents[k]), WindowHigh(layout.extents[k])))
                  => /\ RAdd(layout.extents[k].s0, layout.extents[k].s1)
                           = RMul(I(2), SeamOf(layout.extents[k]))
                     /\ layout.extents[k].s0 = NominalLow(layout.extents[k])

\* keys 150 wide on the 1200-unit line, 9 of them: the last seam is the end
\* of the curve, and the black key there, 93 wide, is moved down to end at
\* 1199.999, keeping its width
C18_Witness ==
    /\ mounted
    /\ props.d = PathStraight
    /\ props.whiteKeySpan = I(150)
    /\ NominalWidth = I(93)
    /\ \E k \in 1..Len(layout.extents) :
          /\ layout.extents[k].index = 7
          /\ SeamOf(layout.extents[k]) = I(1200)
          /\ layout.extents[k].s1 = RSub(I(1200), Epsilon)
          /\ layout.extents[k].s0 = RSub(RSub(I(1200), Epsilon), I(93))

\* the indices of 0..N-2 whose note is followed by a black key, and those at
\* which a black key was pushed
EligibleIndices == Eligible(props.startOn, layout.whiteCount)
EmittedIndices == {layout.extents[k].index : k \in 1..Len(layout.extents)}

\* the extent [s0, s1] after clamping, for the boundary index i
ClampedAt(i) == BlackExtent(layout.boundaries, layout.whiteCount, i, NominalWidth)

\* C19: at an eligible boundary a black key is emitted exactly when the
\* clamped extent has s1 > s0; every black key emitted has positive arc
\* length; none is emitted where boundaries[i+2] - boundaries[i] <= 0.002,
\* nor when blackWidthRatio <= 0.
C19_EmittedIffRoom ==
    mounted =>
        /\ Len(blackQuads) = Len(layout.extents)
        /\ EmittedIndices \subseteq EligibleIndices
        /\ \A i \in EligibleIndices :
              /\ (i \in EmittedIndices) <=> RLt(ClampedAt(i).s0, ClampedAt(i).s1)
              /\ RLe(RSub(layout.boundaries[i + 2], layout.boundaries[i]), Q(2, 1000))
                    => i \notin EmittedIndices
        /\ \A k \in 1..Len(layout.extents) :
              /\ RLt(layout.extents[k].s0, layout.extents[k].s1)
              /\ layout.extents[k].s0 = ClampedAt(layout.extents[k].index).s0
              /\ layout.extents[k].s1 = ClampedAt(layout.extents[k].index).s1
        /\ props.blackWidthRatio[1] <= 0 => Len(blackQuads) = 0

\* 9 keys with a span override of 5 on the curve of length 5: every boundary
\* but the first is 5, the black key after the first white key has room and
\* the later ones have an empty window
C19_Witness ==
    /\ mounted
    /\ props.d = PathSlant
    /\ props.whiteKeySpan = I(5)
    /\ props.blackWidthRatio = Q(62, 100)
    /\ props.startOn = "A"
    /\ layout.whiteCount = 9
    /\ EmittedIndices = {0}
    /\ EligibleIndices = {0, 2, 3, 5, 6, 7}
    /\ RLe(RSub(layout.boundaries[4], layout.boundaries[2]), Q(2, 1000))

\* a negative blackWidthRatio on the 1200-unit line: no black key
C19_WitnessNarrowed ==
    /\ mounted
    /\ props.d = PathStraight
    /\ props.blackWidthRatio = Q(-1, 2)
    /\ layout.whiteCount = MaxWhiteKeys
    /\ Len(blackQuads) = 0

\* anchorOffset = -thickness / 2 when orientation is 1, +thickness / 2 otherwise
ExpectedAnchorOffset ==
    IF props.orientation = 1 THEN RNeg(RDiv(props.thickness, I(2)))
    ELSE RDiv(props.thickness, I(2))

\* anchor = p + n * anchorOffset for the frame g
AnchorPoint(g) == Offset(g, ExpectedAnchorOffset)

\* inner = anchor + n * (thickness * blackDepth) * orientation
InnerPoint(g) ==
    [x |-> RAdd(AnchorPoint(g).x,
                RMul(RMul(g.n.x, RMul(props.thickness, props.blackDepth)),
                     I(props.orientation))),
     y |-> RAdd(AnchorPoint(g).y,
                RMul(RMul(g.n.y, RMul(props.thickness, props.blackDepth)),
                     I(props.orientation)))]

\* C20: the black quad of the extent [s0, s1] is [startAnchor, endAnchor,
\* endInner, startInner] in that order, with anchor = p + n * anchorOffset,
\* anchorOffset = -thickness / 2 for orientation 1 and +thickness / 2
\* otherwise, inner = anchor + n * (thickness * blackDepth) * orientation,
\* the start corners from the frame at s0 and the end corners from the frame
\* at s1.
C20_BlackQuadCorners ==
    mounted =>
        /\ Len(blackQuads) = Len(layout.extents)
        /\ \A k \in 1..Len(blackQuads) :
              /\ Corner(blackQuads[k], 1) = AnchorPoint(geoAt(props.d, layout.extents[k].s0))
              /\ Corner(blackQuads[k], 2) = AnchorPoint(geoAt(props.d, layout.extents[k].s1))
              /\ Corner(blackQuads[k], 3) = InnerPoint(geoAt(props.d, layout.extents[k].s1))
              /\ Corner(blackQuads[k], 4) = InnerPoint(geoAt(props.d, layout.extents[k].s0))

\* two keys of thickness 6 and blackDepth 1 on the 1200-unit line,
\* orientation 1: the black key is anchored at y = -3 from x = 414 to
\* x = 786 and reaches y = 3
C20_Witness ==
    /\ mounted
    /\ props.d = PathStraight
    /\ props.orientation = 1
    /\ props.thickness = I(6)
    /\ props.blackDepth = I(1)
    /\ props.blackWidthRatio = Q(62, 100)
    /\ ~SpanGiven
    /\ layout.whiteCount = 2
    /\ blackQuads = << << I(414), I(-3), I(786), I(-3), I(786), I(3), I(414), I(3) >> >>

\* --------------------------------------------------------------------------
\* The straight horizontal curve
\* --------------------------------------------------------------------------

\* the axis-aligned rectangle [x0, x1] x [y0, y1] as a quad whose first edge
\* lies on y = y1
Rectangle(x0, x1, y0, y1) == << x0, y1, x1, y1, x1, y0, x0, y0 >>

\* C21: on the straight horizontal curve the tangent is (1, 0) and the
\* normal (0, 1) at every arc length the layout samples and at both end
\* points; white quad i is the rectangle [boundaries[i], boundaries[i+1]] x
\* [y - thickness/2, y + thickness/2]; every black quad is an axis-aligned
\* rectangle over its extent whose inner edge lies thickness * blackDepth
\* from the anchored edge, vertically.
C21_StraightLine ==
    (mounted /\ props.d = PathStraight) =>
        /\ \A s \in ArcLengths \cup {I(0), CurveLength} :
              /\ geoAt(props.d, s).t = [x |-> I(1), y |-> I(0)]
              /\ geoAt(props.d, s).n = [x |-> I(0), y |-> I(1)]
        /\ \A k \in 1..Len(whiteQuads) :
              whiteQuads[k] =
                  Rectangle(layout.boundaries[k - 1], layout.boundaries[k],
                            RSub(props.d.oy, RDiv(props.thickness, I(2))),
                            RAdd(props.d.oy, RDiv(props.thickness, I(2))))
        /\ \A k \in 1..Len(blackQuads) :
              /\ Corner(blackQuads[k], 1).x = layout.extents[k].s0
              /\ Corner(blackQuads[k], 4).x = layout.extents[k].s0
              /\ Corner(blackQuads[k], 2).x = layout.extents[k].s1
              /\ Corner(blackQuads[k], 3).x = layout.extents[k].s1
              /\ Corner(blackQuads[k], 1).y = Corner(blackQuads[k], 2).y
              /\ Corner(blackQuads[k], 3).y = Corner(blackQuads[k], 4).y
              /\ RAbs(RSub(Corner(blackQuads[k], 4).y, Corner(blackQuads[k], 1).y))
                    = RMul(props.thickness, props.blackDepth)

\* 12 keys from "A" on the 1200-unit line with the default thickness 80 and
\* blackDepth 0.64: the first white key is [0, 100] x [-40, 40], the last
\* one ends on the end point 1200, and the first black key is
\* [69, 131] x [-40, 11.2]
C21_Witness ==
    /\ mounted
    /\ props.d = PathStraight
    /\ props.startOn = "A"
    /\ props.orientation = 1
    /\ layout.whiteCount = 12
    /\ whiteQuads[1] = << I(0), I(40), I(100), I(40), I(100), I(-40), I(0), I(-40) >>
    /\ Corner(whiteQuads[12], 2) = [x |-> I(1200), y |-> I(40)]
    /\ blackQuads[1] =
          << I(69), I(-40), I(131), I(-40), I(131), Q(56, 5), I(69), Q(56, 5) >>

\* --------------------------------------------------------------------------
\* The local frame
\* --------------------------------------------------------------------------

\* arc lengths besides those the layout samples: before the start, on the
\* start, inside, on the cusp of PathFold, past the end of every curve
Probes == {I(-1), I(0), Q(1, 4), I(3), I(5), I(2000)}

SqNorm(v) == RAdd(RMul(v.x, v.x), RMul(v.y, v.y))

Rotated(v) == [x |-> RNeg(v.y), y |-> v.x]

Zero == [x |-> I(0), y |-> I(0)]

\* C22: at every arc length s the normal of the frame is the tangent
\* rotated by 90 degrees, (-tangent.y, tangent.x); both have length 1 where
\* the chord between the two samples around s is not zero, and both are
\* (0, 0) where it is zero.
C22_FrameVectors ==
    mounted =>
        \A s \in ArcLengths \cup Probes :
            /\ geoAt(props.d, s).n = Rotated(geoAt(props.d, s).t)
            /\ ~ChordDegenerate(props.d, s) =>
                  /\ SqNorm(geoAt(props.d, s).t) = I(1)
                  /\ SqNorm(geoAt(props.d, s).n) = I(1)
            /\ ChordDegenerate(props.d, s) =>
                  /\ geoAt(props.d, s).t = Zero
                  /\ geoAt(props.d, s).n = Zero

\* C22 as stated: at every arc length the tangent and the normal have
\* length 1 and the normal is the tangent rotated by 90 degrees.
C22_AsStated ==
    mounted =>
        \A s \in ArcLengths \cup Probes :
            /\ geoAt(props.d, s).n = Rotated(geoAt(props.d, s).t)
            /\ SqNorm(geoAt(props.d, s).t) = I(1)
            /\ SqNorm(geoAt(props.d, s).n) = I(1)

\* two keys on the path that doubles back at s = 3: the frame at the
\* boundary 0 has the tangent (1, 0) and the normal (0, 1), the frame at the
\* boundary 3 has the tangent (0, 0)
C22_Witness ==
    /\ mounted
    /\ props.d = PathFold
    /\ layout.whiteCount = 2
    /\ geoAt(props.d, layout.boundaries[0]).t = [x |-> I(1), y |-> I(0)]
    /\ geoAt(props.d, layout.boundaries[0]).n = [x |-> I(0), y |-> I(1)]
    /\ layout.boundaries[1] = I(3)
    /\ geoAt(props.d, layout.boundaries[1]).t = Zero

\* the chord between the two samples geoAt takes around s, and the divisor
\* it makes of it
Chord(d, s) ==
    [x |-> RSub(getPointAtLength(d, Queries(d.len, s)[2]).x,
                getPointAtLength(d, Queries(d.len, s)[3]).x),
     y |-> RSub(getPointAtLength(d, Queries(d.len, s)[2]).y,
                getPointAtLength(d, Queries(d.len, s)[3]).y)]
Divisor(d, s) == TangentLength(Hypot(Chord(d, s).x, Chord(d, s).y))

\* C23: at every arc length the layout samples, the divisor of the tangent
\* is not zero; where the chord between the two samples is zero (the
\* zero-length curve, the cusp of a path that doubles back, a closed curve
\* no longer than 1 unit) the divisor is 1e-6 and the frame is the path point
\* with zero vectors; every coordinate of every white and black quad is a
\* finite number.
C23_GuardedDivision ==
    mounted =>
        /\ \A s \in ArcLengths :
              /\ Divisor(props.d, s) # I(0)
              /\ Chord(props.d, s) = Zero <=> ChordDegenerate(props.d, s)
              /\ ChordDegenerate(props.d, s) =>
                    /\ Divisor(props.d, s) = Q(1, 1000000)
                    /\ geoAt(props.d, s) =
                          [p |-> getPointAtLength(props.d, s), t |-> Zero, n |-> Zero]
        /\ \A k \in 1..Len(whiteQuads) : \A c \in 1..8 : IsFinite(whiteQuads[k][c])
        /\ \A k \in 1..Len(blackQuads) : \A c \in 1..8 : IsFinite(blackQuads[k][c])

\* three keys from "C" on the closed curve of length 0.0045: the chord is
\* zero at every boundary, both black keys are emitted, and the middle white
\* key has all four corners on the path, from s = 0.0015 to s = 0.003 (the
\* point 0.0015 again, on the way back)
C23_Witness ==
    /\ mounted
    /\ props.d = PathLoop
    /\ layout.whiteCount = 3
    /\ \A s \in ArcLengths : ChordDegenerate(props.d, s)
    /\ Len(blackQuads) = 2
    /\ whiteQuads[2] =
          << Q(3, 2000), I(0), Q(3, 2000), I(0), Q(3, 2000), I(0), Q(3, 2000), I(0) >>

\* --------------------------------------------------------------------------
\* The display frame left alone
\* --------------------------------------------------------------------------

\* the bounds of the stored quads with one of the four made non-finite
BoundsOfQuads ==
    FitBounds(Polygons(whiteQuads, blackQuads), 1, Len(whiteQuads) + Len(blackQuads))
NonFiniteBounds ==
    {[BoundsOfQuads EXCEPT ![f] = v] :
        f \in {"minX", "minY", "maxX", "maxY"}, v \in {Infinity, NegInfinity, NaN}}

\* the step runs the layout effect: one of its dependencies changes
Recomputes ==
    /\ mounted
    /\ LayoutDeps(props', autoWhiteKeys') # LayoutDeps(props, autoWhiteKeys)

\* the quads the layout effect computes in this step
Recomputed ==
    LayoutEffect(props', EffectiveWhiteKeys(props'.numWhiteKeys, autoWhiteKeys'), viewBox)

\* C24: a step that recomputes the layout with fitViewBox false leaves the
\* viewBox state as it was before the step and replaces both quad lists by
\* the newly computed ones; the fit of an empty quad list, and of bounds one
\* of which is not finite, is the viewBox state as it was.
C24_FrameLeftAlone ==
    [][/\ (Recomputes /\ ~props'.fitViewBox) =>
              /\ viewBox' = viewBox
              /\ layout'.viewBox = viewBox
              /\ whiteQuads' = Recomputed.whites
              /\ blackQuads' = Recomputed.blacks
       /\ mounted =>
              /\ FitViewBox(TRUE, props.viewBoxPadding, props.strokeWidth,
                            << >>, << >>, viewBox) = viewBox
              /\ \A b \in NonFiniteBounds :
                    Fitted(b, Pad(props.viewBoxPadding, props.strokeWidth), viewBox)
                        = viewBox]_vars

\* fitViewBox is false and the curve was changed from the 1200-unit line to
\* the path that doubles back: the quads are those of the new curve, the
\* viewBox is still the one fitted to the line (1200 + 2 * 8 wide)
C24_Witness ==
    /\ mounted
    /\ ~props.fitViewBox
    /\ props.d = PathFold
    /\ QuadsAreFresh
    /\ viewBox = << I(-8), I(-48), I(1216), I(96) >>
    /\ layout.viewBox = viewBox

\* --------------------------------------------------------------------------
\* The stored quads after any history
\* --------------------------------------------------------------------------

\* C25: in every state of the mounted component, whatever props were
\* changed and whatever resize signals arrived before, the stored white and
\* black quad lists are those of a computation from scratch on the current
\* d, effective key count, startOn, thickness, whiteKeySpan,
\* blackWidthRatio, blackDepth and orientation, and the white list has
\* max(1, floor(effective key count)) entries.
C25_QuadsOfCurrentInputs ==
    mounted =>
        /\ whiteQuads = LayoutEffect(props, Requested, viewBox).whites
        /\ blackQuads = LayoutEffect(props, Requested, viewBox).blacks
        /\ Len(whiteQuads) = ExpectedCount
        /\ Len(whiteQuads) = WhiteCount(Requested)

\* mounted with 3 keys, then numWhiteKeys was removed with a measured width
\* of 520, on the path that doubles back: the 28 white quads of tier xs,
\* the last of them ending on the end of the path, the point (0, 0), where
\* the curve runs backwards and the normal is (0, -1)
C25_Witness ==
    /\ mounted
    /\ props.d = PathFold
    /\ props.numWhiteKeys = None
    /\ props.whiteKeyDensity = "auto"
    /\ measured = I(520)
    /\ Len(whiteQuads) = 28
    /\ Corner(whiteQuads[28], 2) = [x |-> I(0), y |-> I(-40)]

\* --------------------------------------------------------------------------
\* Resize signals
\* --------------------------------------------------------------------------

\* the step is a resize signal carrying the width w
ResizeSignal(w) == WindowResize(w) \/ ResizeObserved(w)

\* the key count in force is the table count of the tier, and that many
\* white keys are laid out
CountOfTier(tier) ==
    /\ Requested = I(TierKeys[tier])
    /\ layout.whiteCount = TierKeys[tier]
    /\ Len(whiteQuads) = TierKeys[tier]

\* C26 (numWhiteKeys absent): with the setting "auto", a resize signal
\* carrying a finite positive width w leaves the key count of the tier of w
\* in force, whatever the signals before it were; with an explicit tier the
\* key count in force is that tier's, no listener is registered, and a
\* resize signal changes nothing, also when the setting was "auto" before.
C26_LatestSignalWins ==
    /\ [][\A w \in TierWidths :
             (mounted /\ props.whiteKeyDensity = "auto" /\ PositiveFinite(w)
                 /\ ResizeSignal(w))
             => (densityRef' = TierOf(w) /\ CountOfTier(TierOf(w))')]_vars
    /\ []((mounted /\ props.whiteKeyDensity # "auto")
             => (~listening /\ CountOfTier(props.whiteKeyDensity)))
    /\ [][\A w \in TierWidths \cup {NaN} :
             (mounted /\ props.whiteKeyDensity # "auto" /\ ResizeSignal(w))
             => UNCHANGED << densityRef, autoWhiteKeys, whiteQuads, blackQuads, viewBox,
                             layout >>]_vars

\* the setting was "auto" with a measured width of 5000 (tier xl) and is now
\* "xs": 28 keys, no listener
C26_Witness ==
    /\ mounted
    /\ props.numWhiteKeys = None
    /\ props.whiteKeyDensity = "xs"
    /\ measured = I(5000)
    /\ ~listening
    /\ densityRef = "xs"
    /\ CountOfTier("xs")

\* --------------------------------------------------------------------------
\* The white ribbon
\* --------------------------------------------------------------------------

\* C27: for every i in 0..N-2, points 2 and 3 of white quad i are points 1
\* and 4 of white quad i+1: the two corners of the frame at boundaries[i+1],
\* thickness / 2 to either side along its normal.
C27_SeamlessRibbon ==
    mounted =>
        \A k \in 1..(Len(whiteQuads) - 1) :
            /\ Corner(whiteQuads[k], 2) = Corner(whiteQuads[k + 1], 1)
            /\ Corner(whiteQuads[k], 3) = Corner(whiteQuads[k + 1], 4)
            /\ Corner(whiteQuads[k], 2)
                  = Offset(geoAt(props.d, layout.boundaries[k]), RDiv(props.thickness, I(2)))
            /\ Corner(whiteQuads[k], 3)
                  = Offset(geoAt(props.d, layout.boundaries[k]),
                           RNeg(RDiv(props.thickness, I(2))))

\* 5 keys of thickness 80 on the slanted segment of length 5: the first two
\* keys meet on the corners (3/5 - 32, 4/5 + 24) and (3/5 + 32, 4/5 - 24) of
\* the boundary s = 1
C27_Witness ==
    /\ mounted
    /\ props.d = PathSlant
    /\ props.thickness = I(80)
    /\ layout.whiteCount = 5
    /\ layout.boundaries[1] = I(1)
    /\ Corner(whiteQuads[1], 2) = [x |-> Q(-157, 5), y |-> Q(124, 5)]
    /\ Corner(whiteQuads[2], 1) = [x |-> Q(-157, 5), y |-> Q(124, 5)]
    /\ Corner(whiteQuads[1], 3) = [x |-> Q(163, 5), y |-> Q(-116, 5)]
    /\ Corner(whiteQuads[2], 4) = [x |-> Q(163, 5), y |-> Q(-116, 5)]

\* --------------------------------------------------------------------------
\* The density reference and the automatic key count
\* --------------------------------------------------------------------------

\* C28: in every state, before and after the mount, after changes of the
\* density setting, resize signals, and numWhiteKeys set and cleared, the
\* automatic key count is the table count of the tier held in the density
\* reference; a step changes both or neither.
C28_CountOfReference ==
    /\ [](/\ densityRef \in DOMAIN TierKeys
          /\ autoWhiteKeys = TierKeys[densityRef])
    /\ [][(densityRef' = densityRef) <=> (autoWhiteKeys' = autoWhiteKeys)]_vars

\* numWhiteKeys was cleared while the width was 520 (tier xs, 28 keys) and
\* then set to 2.5: the reference is still xs and the automatic count 28,
\* with 2 keys laid out
C28_Witness ==
    /\ mounted
    /\ props.numWhiteKeys = Q(5, 2)
    /\ props.whiteKeyDensity = "auto"
    /\ ~listening
    /\ measured = I(520)
    /\ densityRef = "xs"
    /\ autoWhiteKeys = 28
    /\ Len(whiteQuads) = 2

\* --------------------------------------------------------------------------
\* Black keys apart
\* --------------------------------------------------------------------------

\* C29: with the derived span and 0 < blackWidthRatio <= 1, the black keys
\* emitted are in the order of their indices, and of any two of them the one
\* of the lower index ends (s1) no later than the other starts (s0).
C29_BlackKeysApart ==
    (mounted /\ ~SpanGiven /\ props.blackWidthRatio[1] > 0
        /\ RLe(props.blackWidthRatio, I(1))) =>
        /\ Len(blackQuads) = Len(layout.extents)
        /\ \A j, k \in 1..Len(layout.extents) :
              j < k =>
                  /\ layout.extents[j].index < layout.extents[k].index
                  /\ RLe(layout.extents[j].s1, layout.extents[k].s0)

\* 9 keys from "C" on the 1200-unit line with blackWidthRatio 1: the black
\* key after C is [200/3, 200] and the one after D is [200, 1000/3]
C29_Witness ==
    /\ mounted
    /\ props.d = PathStraight
    /\ props.startOn = "C"
    /\ props.blackWidthRatio = I(1)
    /\ ~SpanGiven
    /\ layout.whiteCount = 9
    /\ layout.extents[1] = [index |-> 0, s0 |-> Q(200, 3), s1 |-> I(200)]
    /\ layout.extents[2] = [index |-> 1, s0 |-> I(200), s1 |-> Q(1000, 3)]

\* 3 keys from "C" on the curve of length 0.0045 with blackWidthRatio 1: the
\* keys are 0.0015 long, each black key fills its window of 0.001, and the
\* two are 0.0005 apart
C29_WitnessNarrow ==
    /\ mounted
    /\ props.d = PathLoop
    /\ props.blackWidthRatio = I(1)
    /\ layout.whiteCount = 3
    /\ Len(layout.extents) = 2
    /\ layout.extents[1] = [index |-> 0, s0 |-> Q(1, 1000), s1 |-> Q(2, 1000)]
    /\ layout.extents[2] = [index |-> 1, s0 |-> Q(5, 2000), s1 |-> Q(7, 2000)]

\* --------------------------------------------------------------------------
\* Widths that are not positive finite numbers
\* --------------------------------------------------------------------------

Unusable == {I(0), I(-5), NaN, Infinity, NegInfinity}

\* C30: with the setting "auto", a width that is zero, negative or not
\* finite is looked up as 1024: chooseDensity gives md for it, updateFromWidth
\* leaves the reference on md with 44 keys, and while such a width is the one
\* last looked up 44 white keys are laid out; a window or observer resize
\* signal of width 0 (or a negative one) leaves tier md with 44 keys,
\* whatever the tier was.
C30_DefaultWidth ==
    /\ [](\A w \in Unusable :
             /\ chooseDensity(w, "auto") = "md"
             /\ chooseDensity(w, "auto") = chooseDensity(I(DEFAULT_VIEWPORT_WIDTH), "auto")
             /\ updateFromWidth(State, w).densityRef = "md"
             /\ updateFromWidth(State, w).autoWhiteKeys = 44)
    /\ []((listening /\ ~PositiveFinite(measured))
             => (densityRef = "md" /\ CountOfTier("md")))
    /\ [][\A w \in {I(0), I(-5)} :
             (mounted /\ listening /\ ResizeSignal(w))
             => (measured' = w /\ densityRef' = "md" /\ CountOfTier("md")')]_vars

\* the width last looked up is 0, in "auto" mode: tier md, 44 white keys
C30_Witness ==
    /\ mounted
    /\ listening
    /\ props.whiteKeyDensity = "auto"
    /\ measured = I(0)
    /\ densityRef = "md"
    /\ autoWhiteKeys = 44
    /\ Len(whiteQuads) = 44

====
